---- MODULE Spec2Model ----
(***************************************************************************)
(* Model of the agent-orchestration core of excel_analysis:                *)
(*   - MessageVariableProcessor (src/tools/message_variable_processor.py): *)
(*     the binding store with its insertion-order list and eviction;       *)
(*   - OpenAIConnector._handle_chat_with_tools / _execute_tool_call        *)
(*     (src/llm_client.py): the bounded tool-call loop;                    *)
(*   - ToolRegistry.execute_tool (src/tools/tool_registry.py).             *)
(*   - DialogueService.process_message / generate_ppt_async                *)
(*     (src/dialogue_service.py): the dialogue history and the fan-out     *)
(*     pipeline.                                                           *)
(* SpecStore drives the binding store directly; SpecLoop / SpecLoopFair    *)
(* drive one chat_completion call with tools; SpecResolve drives           *)
(* resolve_placeholders_in_text over a store; SpecPreview builds previews; *)
(* SpecFan drives generate_ppt_async; SpecChat drives process_message.     *)
(***************************************************************************)
EXTENDS Integers, Sequences, FiniteSets, TLC

\* ------------------------------------------------------------------ bounds
\* largest max_store_items explored (the code's default is 50)
MaxCap == 2
\* number of register_binding / get_binding calls in one SpecStore behaviour
MaxOps == 5
\* number of distinct caller-supplied variable names
MaxSupplied == 1
\* largest max_tool_rounds explored (the code's default is 10)
MaxRounds == 2
\* largest number of tool invocations in one model response
MaxCalls == 2
\* tool invocations the gateway requests in one chat_completion call, in total
MaxInvocations == 3
\* max_store_items of the connector's store in SpecLoop (the code's default
\* is 50; a small value lets the loop's registrations evict)
LoopCap == 2

\* ------------------------------------------------------------------ values
\* Python's None
None == "None"
\* tool names that own bindings
ToolNames == {"execute_sql", "calc"}
\* payloads a tool result can parse to; None is a legal JSON value (null)
Values == {"rows", None}
\* a variable name: generated by register_binding (gen) or supplied by the caller
SuppliedNames == [gen : {FALSE}, n : 1..MaxSupplied]

VARIABLES
    \* MessageVariableProcessor
    store,          \* _store: (tool, var) -> value
    order,          \* _order: list of keys, oldest first
    capacity,       \* max_store_items
    suffix,         \* number of names generated so far (timestamp + uuid suffix)
    \* history of the last store operation and of the live bindings' insertion times
    born,           \* key -> index of the register call that made it live
    clock,          \* number of register_binding calls so far
    last,           \* the last store operation and what it did
    nOps,           \* store operations performed so far
    \* OpenAIConnector.chat_completion / _handle_chat_with_tools
    pc,               \* "idle", "loop" (line 143), "dispatch" (line 182),
                      \* "returned", "raised"
    max_tool_rounds,
    current_round,
    messages,         \* the caller's list
    current_messages, \* the loop's transcript
    tool_registry,    \* TRUE when a ToolRegistry is set, FALSE when None
    tool_calls,       \* message.tool_calls of the response being dispatched
    idx,              \* position of the for loop of line 182
    invoked,          \* tool invocations requested so far (correlation ids)
    dispatched,       \* _execute_tool_call calls so far
    gwLog,            \* the gateway calls made so far
    result,           \* what chat_completion gave its caller
    tool_outcome,     \* what ToolRegistry.execute_tool last returned
    \* MessageVariableProcessor._known_tools
    known_tools,
    \* DialogueService
    conversation_history,
    \* build_lightweight_tool_payload
    original_value,   \* the value a payload is built for
    preview,          \* the preview put in the payload
    \* DialogueService.generate_ppt_async
    outline,          \* per section, its number of subsections
    units,            \* position key -> the unit's worker state and outcome
    fan_pc,           \* "idle", "awaiting" (line 433), "assembled" (line 455),
                      \* "summarised" (line 477), "done", "failed"
    awaited,          \* futures the loop of line 433 has awaited
    content_results,  \* (content_key, result) pairs, in await order
    slides,           \* ppt_data["slides"]
    fan_cause,        \* why the pipeline failed
    overtaken,        \* TRUE once a unit finished before an earlier one
    \* DialogueService.process_message
    chat_pc,          \* "idle", "calling" (inside chat_completion, line 527)
    chat_reply,       \* what the last process_message returned to the user
    chat_log,         \* per finished call: the model's text and its rendering
    turns,            \* process_message calls so far
    \* worker threads sharing one MessageVariableProcessor
    threads,          \* thread -> its position inside register_binding
    inserted,         \* the keys in the order _order.append took them
    \* the sessions of web_app and the gateway object they hold
    instance,         \* OpenAIConnector._instance: 0 for None, else an index
                      \* of connectors
    connectors,       \* the OpenAIConnector objects created so far
    sessions,          \* session id -> its DialogueService
    \* DialogueService._parse_llm_json_response and its two callers
    parse_content,    \* the model-authored text, as a sequence of symbols
    parse_site,       \* "outline" (line 193) or "slide" (line 305)
    parse_pc,         \* "ready", "done"
    parse_result,     \* what the caller of the site gets
    parse_log,         \* the logger.error lines written
    \* DialogueService.process_message with generate_ppt=True
    ppt_pc,           \* "idle", "get_running_loop" (line 512),
                      \* "run_until_complete" (516), "handler" (519),
                      \* "pipeline", "returned", "raised"
    ppt_context,      \* "no_loop" or "running_loop": the calling thread
    ppt_result,        \* what process_message returned
    \* concurrent OpenAIConnector() and get_instance() calls
    callers,          \* thread -> its position inside __new__ or get_instance
    lock,             \* OpenAIConnector._lock: 0 when free, else the holding thread
    objects,          \* per object super().__new__ made, the attributes set so far
    env_key           \* TRUE when OPENAI_API_KEY is in the environment

loopVars == <<pc, max_tool_rounds, current_round, messages, current_messages,
              tool_registry, tool_calls, idx, invoked, dispatched, gwLog,
              result, tool_outcome>>

\* the variables neither the store operations nor the tool loop assign
previewVars == <<original_value, preview>>
fanVars == <<outline, units, fan_pc, awaited, content_results, slides,
             fan_cause, overtaken>>
chatVars == <<chat_pc, chat_reply, chat_log, turns>>
workerVars == <<threads, inserted>>
sessionVars == <<instance, connectors, sessions>>
parseVars == <<parse_content, parse_site, parse_pc, parse_result, parse_log>>
pptVars == <<ppt_pc, ppt_context, ppt_result>>
ctorVars == <<callers, lock, objects, env_key>>
processVars == <<ctorVars, pptVars, parseVars, sessionVars, workerVars>>
extVars == <<known_tools, conversation_history, original_value, preview,
             outline, units, fan_pc, awaited, content_results, slides,
             fan_cause, overtaken, chat_pc, chat_reply, chat_log, turns,
             processVars>>

vars == <<store, order, capacity, suffix, born, clock, last, nOps,
          pc, max_tool_rounds, current_round, messages, current_messages,
          tool_registry, tool_calls, idx, invoked, dispatched, gwLog, result,
          tool_outcome, known_tools, conversation_history, original_value,
          preview, outline, units, fan_pc, awaited, content_results, slides,
          fan_cause, overtaken, chat_pc, chat_reply, chat_log, turns,
          processVars>>

\* ------------------------------------------------- MessageVariableProcessor
EmptyStore == [k \in {} |-> None]

\* self._store[key] = value
StorePut(st, key, value) ==
    [k \in DOMAIN st \cup {key} |-> IF k = key THEN value ELSE st[k]]

\* self._store.pop(old_key, None)
StorePop(st, key) == [k \in DOMAIN st \ {key} |-> st[k]]

\* faulty variant: evicting when the list is merely full
ShouldEvictAtCapacity(ord, cap) == Len(ord) >= cap

\* faulty variant: one key too many is tolerated
ShouldEvictLate(ord, cap) == Len(ord) > cap + 1

\* while len(self._order) > self.max_store_items
ShouldEvict(ord, cap) == Len(ord) > cap

\* the list after self._order.pop(0)
PopOldest(ord) == Tail(ord)

\* old_key = self._order.pop(0)
OldKey(ord) == Head(ord)

RECURSIVE evict_if_necessary(_, _, _)
\* _evict_if_necessary: the store and the list after the loop, the keys popped
\* from the list (popped) and those of them that were live bindings (removed)
evict_if_necessary(st, ord, cap) ==
    \* (ord # <<>>: with max_store_items >= 0 the loop never pops an empty list)
    IF ShouldEvict(ord, cap) /\ ord # <<>>
    THEN LET old == OldKey(ord)
             r   == evict_if_necessary(StorePop(st, old), PopOldest(ord), cap)
         IN  [r EXCEPT !.popped  = <<old>> \o @,
                       !.removed = IF old \in DOMAIN st THEN <<old>> \o @ ELSE @]
    ELSE [store |-> st, order |-> ord, popped |-> <<>>, removed |-> <<>>]

\* var_name = f"{tool_name}_{int(time.time()*1000)}_{uuid.uuid4().hex[:8]}":
\* a name no earlier call produced and no caller supplied
GeneratedName(n) == [gen |-> TRUE, n |-> n]

\* register_binding without the log line: put, append, evict
register_binding(st, ord, cap, tool, value, var_name) ==
    LET key == <<tool, var_name>>
    IN  evict_if_necessary(StorePut(st, key, value), Append(ord, key), cap)

\* get_binding: self._store.get((tool_name, var_name))
get_binding(st, tool, var_name) ==
    IF <<tool, var_name>> \in DOMAIN st THEN st[<<tool, var_name>>] ELSE None

\* ------------------------------------------------------------ store actions
\* the live key with the earliest insertion among the bindings of st
Oldest(st, b) == CHOOSE k \in DOMAIN st : \A j \in DOMAIN st : b[k] <= b[j]

NoOp == [op |-> "none"]

\* one register_binding(tool, value, var_name) call; var_name = None draws a
\* generated name
RegisterStep(tool, value, supplied, var_name) ==
    LET name == IF supplied THEN var_name ELSE GeneratedName(suffix + 1)
        key  == <<tool, name>>
        r    == register_binding(store, order, capacity, tool, value, name)
        st1  == StorePut(store, key, value)
        b1   == [k \in DOMAIN st1 |->
                    IF k \in DOMAIN store THEN born[k] ELSE clock + 1]
    IN  /\ store' = r.store
        /\ order' = r.order
        /\ suffix' = IF supplied THEN suffix ELSE suffix + 1
        /\ clock' = clock + 1
        /\ born' = [k \in DOMAIN r.store |-> b1[k]]
        /\ last' = [op |-> "register", tool |-> tool, name |-> name,
                    value |-> value, generated |-> ~supplied,
                    sizeBefore |-> Cardinality(DOMAIN store),
                    wasLive |-> key \in DOMAIN store,
                    popped |-> r.popped, removed |-> r.removed,
                    oldest |-> Oldest(st1, b1)]
        /\ UNCHANGED capacity

RegisterGenerated ==
    /\ nOps < MaxOps
    /\ \E tool \in ToolNames, value \in Values :
          RegisterStep(tool, value, FALSE, None)
    /\ nOps' = nOps + 1

RegisterSupplied ==
    /\ nOps < MaxOps
    /\ \E tool \in ToolNames, value \in Values, name \in SuppliedNames :
          RegisterStep(tool, value, TRUE, name)
    /\ nOps' = nOps + 1

\* the names a caller can ask for: supplied ones and those generated so far
KnownNames == SuppliedNames \cup {GeneratedName(i) : i \in 1..suffix}

\* one get_binding(tool, var_name) call (also the lookup resolve makes per token)
GetBinding ==
    /\ nOps < MaxOps
    /\ \E tool \in ToolNames, name \in KnownNames :
          last' = [op |-> "get", tool |-> tool, name |-> name,
                   result |-> get_binding(store, tool, name)]
    /\ nOps' = nOps + 1
    /\ UNCHANGED <<store, order, capacity, suffix, born, clock>>

\* no execute_tool call was made yet
NoOutcome == [called |-> FALSE, tool |-> "", behaviour |-> "",
              out |-> [tool_name |-> "", result |-> ""]]

\* the state after OpenAIConnector._initialize and before any chat_completion
IdleLoop ==
    /\ pc = "idle"
    /\ max_tool_rounds = 0
    /\ current_round = 0
    /\ messages = <<>>
    /\ current_messages = <<>>
    /\ tool_registry = FALSE
    /\ tool_calls = <<>>
    /\ idx = 0
    /\ invoked = 0
    /\ dispatched = 0
    /\ gwLog = <<>>
    /\ result = [kind |-> "none"]
    /\ tool_outcome = NoOutcome

\* a value up to two levels deep: a string of n0 characters, a number, or a
\* list / dict of n0 entries that are all like (t1, n1, t2, n2): strings of
\* n1 characters, numbers, or lists / dicts of n1 entries that are strings of
\* n2 characters, numbers or lists of n2 numbers
Value(t0, n0, t1, n1, t2, n2) ==
    [t0 |-> t0, n0 |-> n0, t1 |-> t1, n1 |-> n1, t2 |-> t2, n2 |-> n2]
NoValue == Value("none", 0, "none", 0, "none", 0)

\* the state of everything else before it is used: no tool is registered as
\* known (line 37), the dialogue has no message yet
IdlePreview ==
    /\ original_value = NoValue
    /\ preview = NoValue

\* before generate_ppt_async is called
IdleFan ==
    /\ outline = <<>>
    /\ units = <<>>
    /\ fan_pc = "idle"
    /\ awaited = 0
    /\ content_results = <<>>
    /\ slides = <<>>
    /\ fan_cause = ""
    /\ overtaken = FALSE

\* before process_message is called
IdleChat ==
    /\ chat_pc = "idle"
    /\ chat_reply = <<>>
    /\ chat_log = <<>>
    /\ turns = 0

\* no worker thread is inside register_binding
IdleWorkers ==
    /\ threads = <<>>
    /\ inserted = <<>>

\* the sessions of web_app and the gateway object they hold
IdleSessions ==
    /\ instance = 0
    /\ connectors = <<>>
    /\ sessions = <<>>

\* DialogueService._parse_llm_json_response and its two callers
IdleParse ==
    /\ parse_content = <<>>
    /\ parse_site = ""
    /\ parse_pc = "idle"
    /\ parse_result = <<>>
    /\ parse_log = <<>>

\* DialogueService.process_message with generate_ppt=True
IdlePpt ==
    /\ ppt_pc = "idle"
    /\ ppt_context = ""
    /\ ppt_result = ""

\* concurrent OpenAIConnector() and get_instance() calls
IdleCtor ==
    /\ callers = <<>>
    /\ lock = 0
    /\ objects = <<>>
    /\ env_key = FALSE

\* the process before any session, thread or gateway instance exists
IdleProcess ==
    /\ IdleCtor
    /\ IdlePpt
    /\ IdleParse
    /\ IdleSessions
    /\ IdleWorkers

IdleExt ==
    /\ known_tools = {}
    /\ conversation_history = <<>>
    /\ IdlePreview
    /\ IdleFan
    /\ IdleChat
    /\ IdleProcess

InitStore ==
    /\ store = EmptyStore
    /\ order = <<>>
    /\ capacity \in 0..MaxCap
    /\ suffix = 0
    /\ born = EmptyStore
    /\ clock = 0
    /\ last = NoOp
    /\ nOps = 0
    /\ IdleLoop
    /\ IdleExt

NextStore ==
    \/ RegisterGenerated /\ UNCHANGED loopVars /\ UNCHANGED extVars
    \/ RegisterSupplied /\ UNCHANGED loopVars /\ UNCHANGED extVars
    \/ GetBinding /\ UNCHANGED loopVars /\ UNCHANGED extVars

SpecStore == InitStore /\ [][NextStore]_vars

\* ------------------------------------------------ transcript and responses
NoName == [gen |-> FALSE, n |-> 0]

\* a message content: kind "None" is Python's None, "text" model or user
\* text, "directive" the text of line 207, "lightweight" the payload of
\* build_lightweight_tool_payload naming (tool, var), "error" a JSON error
Content(kind, tool, var) == [kind |-> kind, tool |-> tool, var |-> var]

NoneContent == Content("None", "", NoName)

Msg(role, content, calls, id) ==
    [role |-> role, content |-> content, tool_calls |-> calls,
     tool_call_id |-> id]

UserQuestion == Msg("user", Content("text", "", NoName), <<>>, 0)

\* the system message DialogueService.__init__ puts in the history
SystemPrompt == Msg("system", Content("text", "", NoName), <<>>, 0)

\* lines 205-208: the message demanding a final answer
Directive == Msg("user", Content("directive", "", NoName), <<>>, 0)

\* the tools registered in the ToolRegistry (ToolRegistry._handlers)
Handlers == {"execute_sql"}

\* what the gateway can put in one invocation: a registered or an unknown
\* tool name, arguments that json.loads accepts or rejects
CallNames == {"execute_sql", "no_such_tool"}
CallArguments == {"json", "malformed"}

\* what a handler's execute can do: return (True, JSON text), return
\* (False, text), raise, or return a result that is neither a string nor
\* JSON-serialisable nor sized
HandlerBehaviours == {"ok", "fail", "raise", "nonstr"}

\* ---------------------------------------------------- ToolRegistry.execute_tool
\* execute_tool: (tool_name, result); the handler's success flag is dropped
execute_tool(tool_name, behaviour) ==
    IF tool_name \notin Handlers
    THEN <<tool_name, "unknown_tool_json">>
    ELSE CASE behaviour = "raise"  -> <<tool_name, "tool_failed_json">>
           [] behaviour = "ok"     -> <<tool_name, "rows_json">>
           [] behaviour = "fail"   -> <<tool_name, "failure_text">>
           [] OTHER                -> <<tool_name, "object">>

\* lines 265-268: json.loads(result_str), the raw result when that raises
ParseResult(result_str) ==
    CASE result_str = "rows_json"         -> "rows"
      [] result_str = "unknown_tool_json" -> "unknown_tool_error"
      [] result_str = "tool_failed_json"  -> "tool_failed_error"
      [] OTHER                            -> result_str

\* json.dumps in build_lightweight_tool_payload raises on the preview of a
\* value that is not JSON-serialisable
Serialisable(parsed) == parsed # "object"

\* _execute_tool_call, as what it does to the store and what the loop of
\* lines 182-200 appends for the invocation:
\*   binds   - register_binding is called with (tool, value)
\*   content - the content of the tool-role message
execute_tool_call(tc, behaviour) ==
    IF ~tool_registry
    THEN [binds |-> FALSE, tool |-> tc.name, value |-> None,
          content |-> Content("error", "registry", NoName)]
    ELSE IF tc.arguments = "malformed"
    THEN \* json.loads(arguments) raises: caught at line 193
         [binds |-> FALSE, tool |-> tc.name, value |-> None,
          content |-> Content("error", "exception", NoName)]
    ELSE LET r      == execute_tool(tc.name, behaviour)
             parsed == ParseResult(r[2])
         IN  IF Serialisable(parsed)
             THEN [binds |-> TRUE, tool |-> r[1], value |-> parsed,
                   content |-> Content("lightweight", r[1],
                                       GeneratedName(suffix + 1))]
             ELSE \* line 280 returns the raw result, len(result) of line
                  \* 185 raises, line 196 appends the error message
                  [binds |-> TRUE, tool |-> r[1], value |-> parsed,
                   content |-> Content("error", "exception", NoName)]

\* the pair ToolRegistry.execute_tool returns to _execute_tool_call (line
\* 261), when the call is made
ToolOutcome(tc, behaviour) ==
    IF tool_registry /\ tc.arguments # "malformed"
    THEN LET r == execute_tool(tc.name, behaviour)
         IN  [called |-> TRUE, tool |-> tc.name, behaviour |-> behaviour,
              out |-> [tool_name |-> r[1], result |-> r[2]]]
    ELSE NoOutcome

\* faulty variant: a failed invocation gets no tool message
DropToolMessage(msgs, tc, content) ==
    IF content.kind = "error" THEN msgs
    ELSE Append(msgs, Msg("tool", content, <<>>, tc.id))

\* lines 188-192 and 196-200: the tool-role message of one invocation
AppendToolMessage(msgs, tc, content) ==
    Append(msgs, Msg("tool", content, <<>>, tc.id))

\* lines 166-179: the assistant turn with the invocation list
AppendAssistantTurn(msgs, calls) ==
    Append(msgs, Msg("assistant", NoneContent, calls, 0))

\* faulty variant: the round counter is not advanced
SameRound(r) == r

\* line 202
NextRound(r) == r + 1

\* faulty variant: a response without invocations does not end
\* the loop
ReturnsNever(response) == FALSE

\* line 162: if not message.tool_calls
ReturnsNow(response) == response.tool_calls = <<>>

\* faulty variant: the error of a normal round is downgraded
SwallowGatewayError(call) == [kind |-> "synthetic", resp |-> 0,
                              content |-> "error_text", tool_calls |-> None]

\* lines 148 and 114-115: the gateway error of a normal round leaves
\* _handle_chat_with_tools and chat_completion raises RuntimeError
OnGatewayError(call) == [kind |-> "raised", resp |-> 0,
                         content |-> "error_text", tool_calls |-> None]

\* faulty variant: the error of the forced call propagates
PropagateForcedError(call) == [kind |-> "raised", resp |-> 0,
                               content |-> "error_text", tool_calls |-> None]

\* lines 222-238: MockResponse carrying the error text, tool_calls = None
OnForcedError(call) == [kind |-> "synthetic", resp |-> 0,
                        content |-> "error_text", tool_calls |-> None]

\* line 214: tools=None
ForcedTools == FALSE

\* faulty variant: the forced call is made without the directive
WithoutDirective(msgs) == msgs

\* lines 205-208
WithDirective(msgs) == Append(msgs, Directive)

\* return response: the gateway's response object itself
Returned(response) == [kind |-> "response", resp |-> response.id,
                       content |-> response.content,
                       tool_calls |-> response.tool_calls]

\* one entry of the gateway log: the request that was sent and what came back
GatewayCall(kind, msgs, tools, outcome) ==
    [kind |-> kind, tools |-> tools, nmsgs |-> Len(msgs),
     lastMsg |-> msgs[Len(msgs)], outcome |-> outcome,
     registered |-> clock, dispatched |-> dispatched]

\* the invocation lists a response can carry: n invocations with fresh ids
Invocations(n) ==
    { [i \in 1..n |-> [id |-> invoked + i, name |-> f[i][1],
                       arguments |-> f[i][2]]] :
        f \in [1..n -> CallNames \X CallArguments] }

storeOfLoop == <<store, order, capacity, suffix, born, clock, last>>

\* ------------------------------------------------------------ loop actions
\* chat_completion(messages, tools, max_tool_rounds) with a non-empty tool
\* catalog and auto_execute_tools: line 110 enters _handle_chat_with_tools,
\* line 140 copies the caller's list
StartChat ==
    /\ pc = "idle"
    /\ \E m \in 0..MaxRounds, reg \in BOOLEAN :
          /\ max_tool_rounds' = m
          /\ tool_registry' = reg
    /\ messages' = <<UserQuestion>>
    /\ current_messages' = <<UserQuestion>>
    /\ current_round' = 0
    /\ pc' = "loop"
    /\ UNCHANGED <<tool_calls, idx, invoked, dispatched, gwLog, result>>
    /\ UNCHANGED <<storeOfLoop, nOps, tool_outcome>>

\* lines 143-154 when the gateway call raises
GatewayRaises ==
    /\ pc = "loop"
    /\ current_round < max_tool_rounds
    /\ gwLog' = Append(gwLog, GatewayCall("normal", current_messages, TRUE,
                                          "error"))
    /\ result' = OnGatewayError(Len(gwLog) + 1)
    /\ pc' = IF result'.kind = "raised" THEN "raised" ELSE "returned"
    /\ UNCHANGED <<max_tool_rounds, current_round, messages, current_messages,
                   tool_registry, tool_calls, idx, invoked, dispatched>>
    /\ UNCHANGED <<storeOfLoop, nOps, tool_outcome>>

\* lines 143-179 when the gateway answers: the response either ends the loop
\* (line 163) or its invocations are queued for the for loop of line 182
GatewayResponds ==
    /\ pc = "loop"
    /\ current_round < max_tool_rounds
    /\ \E n \in 0..MaxCalls :
          /\ invoked + n <= MaxInvocations
          /\ \E calls \in Invocations(n) :
                LET response == [id |-> Len(gwLog) + 1,
                                 content |-> IF n = 0 THEN "text" ELSE None,
                                 tool_calls |-> calls]
                IN  /\ gwLog' = Append(gwLog,
                           GatewayCall("normal", current_messages, TRUE,
                                       IF n = 0 THEN "final" ELSE "calls"))
                    /\ invoked' = invoked + n
                    /\ IF ReturnsNow(response)
                       THEN /\ result' = Returned(response)
                            /\ pc' = "returned"
                            /\ UNCHANGED <<current_messages, tool_calls, idx,
                                           current_round>>
                       ELSE /\ current_messages' =
                                   AppendAssistantTurn(current_messages, calls)
                            /\ tool_calls' = calls
                            /\ idx' = 1
                            /\ IF n = 0
                               THEN /\ pc' = "loop"
                                    /\ current_round' = NextRound(current_round)
                               ELSE /\ pc' = "dispatch"
                                    /\ UNCHANGED current_round
                            /\ UNCHANGED result
    /\ UNCHANGED <<max_tool_rounds, messages, tool_registry, dispatched>>
    /\ UNCHANGED <<storeOfLoop, nOps, tool_outcome>>

\* lines 182-202: one iteration of the for loop; the last one advances the
\* round counter
Dispatch ==
    /\ pc = "dispatch"
    /\ idx <= Len(tool_calls)
    /\ LET tc == tool_calls[idx]
           hs == IF tool_registry /\ tc.arguments = "json"
                    /\ tc.name \in Handlers
                 THEN HandlerBehaviours ELSE {"ok"}
       IN  \E h \in hs :
              LET out == execute_tool_call(tc, h)
              IN  /\ IF out.binds
                     THEN RegisterStep(out.tool, out.value, FALSE, None)
                     ELSE UNCHANGED storeOfLoop
                  /\ current_messages' =
                         AppendToolMessage(current_messages, tc, out.content)
                  /\ tool_outcome' = ToolOutcome(tc, h)
    /\ dispatched' = dispatched + 1
    /\ idx' = idx + 1
    /\ IF idx = Len(tool_calls)
       THEN /\ current_round' = NextRound(current_round)
            /\ pc' = "loop"
       ELSE UNCHANGED <<current_round, pc>>
    /\ UNCHANGED <<max_tool_rounds, messages, tool_registry, tool_calls,
                   invoked, gwLog, result, nOps>>

\* lines 204-238: the directive is appended and the gateway is called once
\* more; its response is returned whatever it carries, its error is turned
\* into a MockResponse
ForcedFinalization ==
    /\ pc = "loop"
    /\ ~(current_round < max_tool_rounds)
    /\ current_messages' = WithDirective(current_messages)
    /\ \E outcome \in {"final", "calls", "error"} :
          /\ gwLog' = Append(gwLog, GatewayCall("forced", current_messages',
                                                ForcedTools, outcome))
          /\ result' =
               IF outcome = "error"
               THEN OnForcedError(Len(gwLog) + 1)
               ELSE Returned([id |-> Len(gwLog) + 1, content |-> "text",
                              tool_calls |->
                                 IF outcome = "calls"
                                 THEN <<[id |-> invoked + 1,
                                         name |-> "execute_sql",
                                         arguments |-> "json"]>>
                                 ELSE <<>>])
    /\ pc' = IF result'.kind = "raised" THEN "raised" ELSE "returned"
    /\ UNCHANGED <<max_tool_rounds, current_round, messages, tool_registry,
                   tool_calls, idx, invoked, dispatched>>
    /\ UNCHANGED <<storeOfLoop, nOps, tool_outcome>>

InitLoop ==
    /\ store = EmptyStore
    /\ order = <<>>
    /\ capacity = LoopCap
    /\ suffix = 0
    /\ born = EmptyStore
    /\ clock = 0
    /\ last = NoOp
    /\ nOps = 0
    /\ IdleLoop
    /\ IdleExt

NextLoop ==
    \/ StartChat /\ UNCHANGED extVars
    \/ GatewayRaises /\ UNCHANGED extVars
    \/ GatewayResponds /\ UNCHANGED extVars
    \/ Dispatch /\ UNCHANGED extVars
    \/ ForcedFinalization /\ UNCHANGED extVars

SpecLoop == InitLoop /\ [][NextLoop]_vars

\* the gateway and the tools answer every call (no per-call timeout is
\* modelled), and the interpreter runs the loop's next statement
SpecLoopFair == SpecLoop /\ WF_vars(NextLoop)

Ended == pc \in {"returned", "raised"}

\* ------------------------------------------------------------- loop claims
GatewayCalls(kind) == {i \in 1..Len(gwLog) : gwLog[i].kind = kind}

\* the normal rounds whose response carried tool invocations
ToolRounds ==
    {i \in 1..Len(gwLog) : gwLog[i].kind = "normal" /\ gwLog[i].outcome = "calls"}

LastCall == gwLog[Len(gwLog)]

\* nothing was appended, dispatched or registered since gateway call i
NothingSince(i) ==
    /\ i = Len(gwLog)
    /\ Len(current_messages) = gwLog[i].nmsgs
    /\ dispatched = gwLog[i].dispatched
    /\ clock = gwLog[i].registered

CallBounds ==
    /\ Cardinality(GatewayCalls("normal")) <= max_tool_rounds
    /\ Cardinality(GatewayCalls("forced")) <= 1

\* C1 as stated: whatever the gateway and the tools do, the loop makes at
\* most max_tool_rounds normal gateway calls and at most one forced call and
\* ends by returning a non-null final message.
C1_AlwaysReturnsMessage ==
    /\ CallBounds
    /\ Ended => (pc = "returned" /\ result.kind \in {"response", "synthetic"})

\* C1 (amended): whatever the gateway and the tools do, the loop terminates
\* after at most max_tool_rounds normal gateway calls and at most one forced
\* call; it returns a non-null final message unless the gateway call of a
\* normal round raised, and then (only then) the error goes to the caller.
C1_Terminates ==
    /\ [](CallBounds)
    /\ [](pc = "returned" => result.kind \in {"response", "synthetic"})
    /\ [](pc = "raised" =>
             /\ result.kind = "raised"
             /\ LastCall.kind = "normal"
             /\ LastCall.outcome = "error")
    /\ <>Ended

\* every one of max_tool_rounds >= 2 rounds asked for tools, the forced call
\* was made and a message came back
C1_Witness ==
    /\ pc = "returned"
    /\ max_tool_rounds >= 2
    /\ Cardinality(ToolRounds) = max_tool_rounds
    /\ Cardinality(GatewayCalls("forced")) = 1
    /\ result.kind = "response"

Assistants == {p \in 1..Len(current_messages) :
                  current_messages[p].role = "assistant"}

\* the assistant turn whose invocations the for loop is still working on
InDispatch(p) == pc = "dispatch" /\ \A q \in Assistants : q <= p

\* C2: every round whose response carries tool invocations adds one
\* assistant message (None content, the full invocation list) followed by
\* exactly one tool-role message per invocation, in invocation order and with
\* that invocation's id, whatever the dispatch did; at every gateway call no
\* invocation lacks its tool message.
C2_OneToolMessagePerInvocation ==
    /\ Cardinality(Assistants) = Cardinality(ToolRounds)
    /\ tool_calls # <<>> =>
          \E p \in Assistants :
             /\ \A q \in Assistants : q <= p
             /\ current_messages[p].tool_calls = tool_calls
    /\ \A p \in Assistants :
          LET m        == current_messages[p]
              n        == Len(m.tool_calls)
              answered == IF InDispatch(p) THEN idx - 1 ELSE n
          IN  /\ m.content = NoneContent
              /\ n >= 1
              /\ p + answered <= Len(current_messages)
              /\ \A k \in 1..answered :
                    /\ current_messages[p + k].role = "tool"
                    /\ current_messages[p + k].tool_call_id = m.tool_calls[k].id
              /\ p + answered < Len(current_messages) =>
                    current_messages[p + answered + 1].role # "tool"

\* a gateway call is about to be made after a round of two invocations of
\* which the first failed (error payload) and the second succeeded
C2_Witness ==
    /\ pc = "loop"
    /\ \E p \in Assistants :
          /\ Len(current_messages[p].tool_calls) = 2
          /\ current_messages[p + 1].content.kind = "error"
          /\ current_messages[p + 2].content.kind = "lightweight"

\* C3: when max_tool_rounds rounds have all ended with tool invocations the
\* loop makes exactly one more gateway call, after appending the directive
\* and with tools=None; nothing is dispatched after it and its response is
\* what the loop returns.
C3_ForcedFinalization ==
    /\ \A i \in GatewayCalls("forced") :
          /\ i = max_tool_rounds + 1
          /\ Cardinality(ToolRounds) = max_tool_rounds
    /\ (Ended /\ Cardinality(ToolRounds) = max_tool_rounds) =>
          /\ Cardinality(GatewayCalls("forced")) = 1
          /\ LastCall.kind = "forced"
          /\ LastCall.lastMsg = Directive
          /\ LastCall.tools = FALSE
          /\ NothingSince(Len(gwLog))
          /\ LastCall.outcome # "error" =>
                /\ pc = "returned"
                /\ result.kind = "response"
                /\ result.resp = Len(gwLog)

\* two rounds of tool calls, then a forced call whose response still asks
\* for a tool and is returned as it is
C3_Witness ==
    /\ pc = "returned"
    /\ max_tool_rounds >= 2
    /\ LastCall.kind = "forced"
    /\ LastCall.outcome = "calls"
    /\ dispatched >= 2
    /\ result.kind = "response"
    /\ result.tool_calls # <<>>

ForcedCallFailed ==
    /\ gwLog # <<>>
    /\ LastCall.kind = "forced"
    /\ LastCall.outcome = "error"

\* C4: when the forced-finalization call fails the loop returns a synthetic
\* message carrying the error text, with no tool invocations, and raises
\* nothing.
C4_ForcedFailureDowngraded ==
    ForcedCallFailed =>
        /\ pc = "returned"
        /\ result.kind = "synthetic"
        /\ result.content = "error_text"
        /\ result.tool_calls = None

C4_Witness ==
    /\ ForcedCallFailed
    /\ max_tool_rounds >= 1
    /\ dispatched >= 1
    /\ pc = "returned"
    /\ result.kind = "synthetic"

\* C5: a gateway error in a normal round ends the loop at once and reaches
\* the caller of chat_completion as an error: no synthetic message, no
\* further gateway call, dispatch, registration or transcript entry.
C5_NormalRoundErrorPropagates ==
    \A i \in GatewayCalls("normal") :
        gwLog[i].outcome = "error" =>
            /\ pc = "raised"
            /\ result.kind = "raised"
            /\ NothingSince(i)

\* the gateway failed in the second round, after the first round's dispatches
C5_Witness ==
    /\ pc = "raised"
    /\ Len(gwLog) = 2
    /\ LastCall.kind = "normal"
    /\ LastCall.outcome = "error"
    /\ dispatched >= 1

\* C6: the first response without tool invocations ends the loop with
\* exactly that response: no later gateway call, dispatch, registration or
\* directive.
C6_FirstPlainResponseEnds ==
    \A i \in GatewayCalls("normal") :
        gwLog[i].outcome = "final" =>
            /\ pc = "returned"
            /\ result.kind = "response"
            /\ result.resp = i
            /\ result.tool_calls = <<>>
            /\ NothingSince(i)
            /\ current_messages[Len(current_messages)] # Directive

\* a plain response in the second round, with rounds still left
C6_Witness ==
    /\ pc = "returned"
    /\ Len(gwLog) = 2
    /\ max_tool_rounds >= 2
    /\ dispatched >= 1
    /\ LastCall.kind = "normal"
    /\ LastCall.outcome = "final"
    /\ result.resp = 2

\* ------------------------------------------------------------ store claims
LastKey == <<last.tool, last.name>>

\* C7: register_binding(tool, value) followed immediately by
\* get_binding(tool, returnedName) returns that value: with a generated name
\* and capacity >= 1 the call never evicts the binding it has just stored,
\* and whenever the call did not evict its own binding (generated or
\* supplied name) the lookup returns exactly the registered value,
\* whatever was registered before.
C7_RegisterThenGet ==
    last.op = "register" =>
        /\ (last.generated /\ capacity >= 1) =>
              /\ LastKey \in DOMAIN store
              /\ \A i \in 1..Len(last.popped) : last.popped[i] # LastKey
        /\ (\A i \in 1..Len(last.removed) : last.removed[i] # LastKey) =>
              /\ LastKey \in DOMAIN store
              /\ get_binding(store, last.tool, last.name) = last.value

\* a generated-name registration into a full store that evicted another
\* binding and whose own non-null value is returned by the lookup
C7_Witness ==
    /\ last.op = "register"
    /\ last.generated
    /\ capacity >= 1
    /\ last.sizeBefore = capacity
    /\ last.removed # <<>>
    /\ last.value # None
    /\ get_binding(store, last.tool, last.name) = last.value

\* C8: after any sequence of register_binding calls the number of bindings
\* get_binding can return is at most max_store_items, and a registration
\* into a store that holds max_store_items bindings removes exactly one.
C8_SizeBounded ==
    /\ Cardinality(DOMAIN store) <= capacity
    /\ (last.op = "register" /\ last.sizeBefore = capacity) =>
          Len(last.removed) = 1

\* a registration into a store holding max_store_items >= 1 bindings
C8_Witness ==
    /\ last.op = "register"
    /\ capacity >= 1
    /\ last.sizeBefore = capacity
    /\ Len(last.removed) = 1
    /\ Cardinality(DOMAIN store) = capacity

\* C9: the binding evicted on overflow is always the oldest surviving
\* binding by insertion order, and get_binding calls never change the
\* store or the order that decides the next eviction.
C9_EvictsOldestSurviving ==
    [][ /\ (last'.op = "register" /\ last'.removed # <<>>) =>
              last'.removed[1] = last'.oldest
        /\ last'.op = "get" => (order' = order /\ store' = store) ]_vars

\* C10: the store is an ordered set of live keys: every key occurs once in
\* the insertion order and the keys of the order are exactly the live keys.
C10_OrderedSetOfLiveKeys ==
    /\ \A i, j \in 1..Len(order) : order[i] = order[j] => i = j
    /\ {order[i] : i \in 1..Len(order)} = DOMAIN store

\* ------------------------------------------------------ placeholder resolver
\* number of register_binding calls in one SpecResolve behaviour
MaxResolveOps == 2

\* payloads bound in SpecResolve: rows, an empty list (falsy in Python) and
\* None (JSON null)
ResolveValues == {"rows", "empty_list", None}

\* a piece of text as the pattern of line 86 cuts it: "plain" characters,
\* "brace" a bracketed fragment the pattern does not match (e.g. {"a": 1}),
\* "token" a match {"tool": "var"}; in a result, "html" and "json" are the
\* renderings of a value
Piece(kind, tool, var, value) ==
    [kind |-> kind, tool |-> tool, var |-> var, value |-> value]

Plain == Piece("plain", "", NoName, "")
Brace == Piece("brace", "", NoName, "")
Token(tool, var) == Piece("token", tool, var, "")

\* the argument of resolve_placeholders_in_text: Optional[str]
NoneText == [isNone |-> TRUE, pieces |-> <<>>]
Text(pieces) == [isNone |-> FALSE, pieces |-> pieces]

\* _format_sql_result_as_html_table(value): table markup, or the no-data
\* block for an empty list
format_sql_result_as_html_table(value) == Piece("html", "", NoName, value)

\* json.dumps(value, ensure_ascii=False)
json_dumps(value) == Piece("json", "", NoName, value)

\* faulty variant: the allow-list is never consulted
EligibleAlways(known, tool) == TRUE

\* the negation of line 92: the allow-list is empty or names the tool
Eligible(known, tool) == known = {} \/ tool \in known

\* faulty variant: a missing binding is rendered like a bound one
IsMissingNever(value) == FALSE

\* line 95: value is None
IsMissing(value) == value = None

\* faulty variant: the lookup removes what it reads
StoreAfterPop(st, tool, var_name) == StorePop(st, <<tool, var_name>>)

\* the store after get_binding's self._store.get(...): as before
StoreAfterGet(st, tool, var_name) == st

\* _replacer(match) for one piece; a piece that is not a token is not a match
\* and stays
replacer(p, st, known) ==
    IF p.kind # "token" THEN p
    ELSE IF ~Eligible(known, p.tool) THEN p
    ELSE LET value == get_binding(st, p.tool, p.var)
         IN  IF IsMissing(value) THEN p
             ELSE IF p.tool = "execute_sql"
                  THEN format_sql_result_as_html_table(value)
                  ELSE json_dumps(value)

\* pattern.sub(_replacer, text): the pieces left to right, and the store the
\* lookups leave
RECURSIVE pattern_sub(_, _, _)
pattern_sub(pieces, st, known) ==
    IF pieces = <<>> THEN [text |-> <<>>, store |-> st]
    ELSE LET p    == Head(pieces)
             st1  == IF p.kind = "token" /\ Eligible(known, p.tool)
                     THEN StoreAfterGet(st, p.tool, p.var)
                     ELSE st
             rest == pattern_sub(Tail(pieces), st1, known)
         IN  [text |-> <<replacer(p, st, known)>> \o rest.text,
              store |-> rest.store]

\* resolve_placeholders_in_text(text): "if not text: return text or ''"
resolve_placeholders_in_text(text, st, known) ==
    IF text.isNone \/ text.pieces = <<>>
    THEN [text |-> <<>>, store |-> st]
    ELSE pattern_sub(text.pieces, st, known)

\* the tokens a text of SpecResolve can hold
Tokens == {Token(t, n) : t \in ToolNames, n \in KnownNames}

\* the texts resolve is called with
ResolveInputs ==
    {NoneText, Text(<<>>)}
    \cup {Text(<<p>>) : p \in {Plain, Brace} \cup Tokens}
    \cup {Text(<<Plain, t, Brace>>) : t \in Tokens}
    \cup {Text(<<t, Token(u, t.var)>>) : t \in Tokens, u \in ToolNames}

\* register_known_tool(tool_name): an empty name is ignored
register_known_tool(known, tool_name) ==
    IF tool_name # "" THEN known \cup {tool_name} ELSE known

RegisterKnownTool ==
    /\ \E tool_name \in ToolNames \cup {""} :
          /\ known_tools' = register_known_tool(known_tools, tool_name)
          /\ last' = [op |-> "known", tool |-> tool_name]
    /\ UNCHANGED <<store, order, capacity, suffix, born, clock, nOps,
                   conversation_history, previewVars, fanVars, chatVars,
                   processVars>>

\* register_binding as _execute_tool_call calls it: the name is generated
RegisterForResolve ==
    /\ nOps < MaxResolveOps
    /\ \E tool \in ToolNames, value \in ResolveValues :
          RegisterStep(tool, value, FALSE, None)
    /\ nOps' = nOps + 1
    /\ UNCHANGED <<known_tools, conversation_history, previewVars, fanVars, chatVars,
                   processVars>>

\* one resolve_placeholders_in_text(text) call
Resolve ==
    /\ \E text \in ResolveInputs :
          LET r == resolve_placeholders_in_text(text, store, known_tools)
          IN  /\ last' = [op |-> "resolve", text |-> text, result |-> r.text,
                          before |-> store, known |-> known_tools]
              /\ store' = r.store
    /\ UNCHANGED <<order, capacity, suffix, born, clock, nOps, known_tools,
                   conversation_history, previewVars, fanVars, chatVars,
                   processVars>>

InitResolve ==
    /\ store = EmptyStore
    /\ order = <<>>
    /\ capacity \in 1..MaxCap
    /\ suffix = 0
    /\ born = EmptyStore
    /\ clock = 0
    /\ last = NoOp
    /\ nOps = 0
    /\ IdleLoop
    /\ known_tools = {}
    /\ conversation_history = <<SystemPrompt>>
    /\ IdlePreview
    /\ IdleFan
    /\ IdleChat
    /\ IdleProcess

NextResolve ==
    \/ RegisterForResolve /\ UNCHANGED loopVars
    \/ RegisterKnownTool /\ UNCHANGED loopVars
    \/ Resolve /\ UNCHANGED loopVars

SpecResolve == InitResolve /\ [][NextResolve]_vars

\* the tokens of the last resolve call: positions of its input
TokenAt(i) == last.text.pieces[i].kind = "token"
TokenKey(i) == <<last.text.pieces[i].tool, last.text.pieces[i].var>>
Resolved == last.op = "resolve"
Positions == IF Resolved THEN 1..Len(last.text.pieces) ELSE {}

\* C11: resolve_placeholders_in_text only reads: a call leaves the set of
\* bindings and their values, the insertion order, the known-tool list and
\* the conversation history as they were.
C11_ResolveReadOnly ==
    [][last'.op = "resolve" =>
          /\ store' = store
          /\ order' = order
          /\ known_tools' = known_tools
          /\ conversation_history' = conversation_history]_vars

\* a resolve call that replaced a token ran while bindings were live
C11_Witness ==
    /\ Resolved
    /\ store # EmptyStore
    /\ known_tools # {}
    /\ \E i \in Positions : last.result[i].kind \in {"html", "json"}

\* the token at position i named a binding that was live during the call
LiveToken(i) == TokenAt(i) /\ TokenKey(i) \in DOMAIN last.before
\* position i of the result is the rendering of the value bound to its token
Rendered(i) ==
    /\ last.result[i].kind \in {"html", "json"}
    /\ last.result[i].value = last.before[TokenKey(i)]

\* C12: when no token of the text refers to a live binding (no well-formed
\* token at all, or tokens whose variable was never registered, was evicted,
\* or is stored under another tool), resolve returns the text unchanged; in
\* every call each piece outside a token is kept in its place.
C12_NoLiveTokenIdentity ==
    Resolved /\ ~last.text.isNone =>
        /\ Len(last.result) = Len(last.text.pieces)
        /\ \A i \in Positions :
              ~TokenAt(i) => last.result[i] = last.text.pieces[i]
        /\ (\A i \in Positions : ~LiveToken(i)) =>
              last.result = last.text.pieces

\* a text whose token names a generated variable that is no longer (or not
\* under this tool) in the store came back unchanged, while another binding
\* was live
C12_Witness ==
    /\ Resolved
    /\ last.before # EmptyStore
    /\ Len(last.text.pieces) >= 2
    /\ \E i \in Positions :
          /\ TokenAt(i)
          /\ last.text.pieces[i].var.gen
          /\ ~LiveToken(i)
    /\ \A i \in Positions : ~LiveToken(i)
    /\ last.result = last.text.pieces

\* C13: with a non-empty allow-list a token whose tool is not listed stays
\* verbatim even when its binding is live; with an empty allow-list every
\* token is looked up, so one with a live non-null binding is replaced.
C13_AllowList ==
    Resolved =>
        \A i \in Positions :
            TokenAt(i) =>
                /\ (last.known # {} /\ last.text.pieces[i].tool \notin last.known)
                       => last.result[i] = last.text.pieces[i]
                /\ (last.known = {} /\ LiveToken(i)
                        /\ last.before[TokenKey(i)] # None)
                       => Rendered(i)

\* a token with a live, non-null binding was left verbatim because its tool
\* is not on the non-empty allow-list
C13_Witness ==
    /\ Resolved
    /\ last.known # {}
    /\ \E i \in Positions :
          /\ LiveToken(i)
          /\ last.before[TokenKey(i)] # None
          /\ last.text.pieces[i].tool \notin last.known
          /\ last.result[i] = last.text.pieces[i]

\* C14: every eligible token with a live binding is replaced by the rendering
\* of the bound value, whatever that value is (an empty list and null
\* included).
C14_LiveTokenReplaced ==
    Resolved =>
        \A i \in Positions :
            (LiveToken(i) /\ Eligible(last.known, last.text.pieces[i].tool))
                => Rendered(i)

\* the same for bindings whose value is not null
LiveNonNullTokenReplaced ==
    Resolved =>
        \A i \in Positions :
            (/\ LiveToken(i)
             /\ Eligible(last.known, last.text.pieces[i].tool)
             /\ last.before[TokenKey(i)] # None)
                => Rendered(i)

\* ------------------------------------------------------------------ preview
\* preview_max_items explored (K; the code's default is 50)
PreviewMaxItems == 2
\* preview_max_chars explored (M; the code's default is 2000)
PreviewMaxChars == 2
\* the number of keys of a dict the preview keeps
PreviewKeyCap == 20

Min(a, b) == IF a <= b THEN a ELSE b

Containers == {"list", "dict"}

\* the entries of a container of the innermost level
InnerValues ==
    {<<"num", 0>>}
    \cup {<<"str", n>> : n \in 0..PreviewMaxChars + 1}
    \cup {<<"list", n>> : n \in 0..PreviewMaxItems + 1}

\* the entries of a top-level container
EntryValues ==
    {Value("num", 0, "none", 0, "none", 0)}
    \cup {Value("str", n, "none", 0, "none", 0) : n \in 0..PreviewMaxChars + 1}
    \cup {Value(t, 0, "none", 0, "none", 0) : t \in Containers}
    \cup {Value(t, n, i[1], i[2], "none", 0) :
             t \in Containers, n \in 1..PreviewMaxItems + 1, i \in InnerValues}

\* the values a payload is built for
PreviewInputs ==
    EntryValues
    \cup {Value(t, n, e.t0, e.n0, e.t1, e.n1) :
             t \in Containers, n \in 1..PreviewMaxItems + 1, e \in EntryValues}

\* v[: min(len(v), self.preview_max_items)] and value[: self.preview_max_items]
TruncList(n) == Min(n, PreviewMaxItems)

\* value[: self.preview_max_chars]
TruncStr(n) == Min(n, PreviewMaxChars)

\* _make_preview(value): a string and a list are cut; of a dict the first
\* PreviewKeyCap entries are kept, those that are lists or strings cut, the
\* others (nested dicts included) and everything inside an entry as they are
make_preview(v) ==
    IF v.t0 = "str" THEN [v EXCEPT !.n0 = TruncStr(v.n0)]
    ELSE IF v.t0 = "list" THEN [v EXCEPT !.n0 = TruncList(v.n0)]
    ELSE IF v.t0 = "dict" THEN
        [v EXCEPT !.n0 = Min(v.n0, PreviewKeyCap),
                  !.n1 = IF v.t1 = "list" THEN TruncList(v.n1)
                         ELSE IF v.t1 = "str" THEN TruncStr(v.n1)
                         ELSE v.n1]
    ELSE v

\* build_lightweight_tool_payload(tool, var, original_value): the preview
BuildPayload ==
    /\ preview = NoValue
    /\ preview' = make_preview(original_value)
    /\ UNCHANGED original_value

InitPreview ==
    /\ store = EmptyStore
    /\ order = <<>>
    /\ capacity = 0
    /\ suffix = 0
    /\ born = EmptyStore
    /\ clock = 0
    /\ last = NoOp
    /\ nOps = 0
    /\ IdleLoop
    /\ known_tools = {}
    /\ conversation_history = <<>>
    /\ original_value \in PreviewInputs
    /\ preview = NoValue
    /\ IdleFan
    /\ IdleChat
    /\ IdleProcess

NextPreview ==
    BuildPayload /\ UNCHANGED <<store, order, capacity, suffix, born, clock,
                                last, nOps, known_tools, conversation_history>>
                 /\ UNCHANGED loopVars
                 /\ UNCHANGED fanVars
                 /\ UNCHANGED chatVars
                 /\ UNCHANGED processVars

SpecPreview == InitPreview /\ [][NextPreview]_vars

\* no list longer than K and no string longer than M at level (t, n)
Within(t, n) ==
    /\ t = "list" => n <= PreviewMaxItems
    /\ t = "str" => n <= PreviewMaxChars

\* C16: a preview never exceeds its bounds: a list preview has at most K
\* items, a string preview at most M characters, and a dict preview holds no
\* list longer than K and no string longer than M at any nesting level.
C16_PreviewBounded ==
    preview # NoValue =>
        /\ Within(preview.t0, preview.n0)
        /\ preview.t0 = "dict" =>
              /\ Within(preview.t1, preview.n1)
              /\ Within(preview.t2, preview.n2)

\* what the code bounds: the preview itself and the direct entries of a dict
PreviewShallowBounded ==
    preview # NoValue =>
        /\ Within(preview.t0, preview.n0)
        /\ preview.t0 = "dict" => Within(preview.t1, preview.n1)

\* ------------------------------------------------ ToolRegistry.execute_tool
\* the last dispatch reached execute_tool with a name that has no handler, or
\* with a handler that raised
FailedDispatch ==
    /\ tool_outcome.called
    /\ \/ tool_outcome.tool \notin Handlers
       \/ tool_outcome.behaviour = "raise"

\* the structured error payloads of lines 77-79 and 86-88
ErrorPayloads == {"unknown_tool_json", "tool_failed_json"}

\* C17: dispatching an unknown tool name never raises: execute_tool returns a
\* failure outcome (ok = false) with the structured unknown-tool error
\* payload, and a handler that raises is likewise turned into a failure
\* outcome with an error payload.
C17_FailureOutcome ==
    FailedDispatch =>
        /\ "ok" \in DOMAIN tool_outcome.out
        /\ ~tool_outcome.out.ok
        /\ tool_outcome.out.result \in ErrorPayloads

\* what the code does give: the tool name and the matching error payload
ErrorPayloadReturned ==
    FailedDispatch =>
        /\ DOMAIN tool_outcome.out = {"tool_name", "result"}
        /\ tool_outcome.out.tool_name = tool_outcome.tool
        /\ tool_outcome.out.result =
              IF tool_outcome.tool \notin Handlers
              THEN "unknown_tool_json" ELSE "tool_failed_json"

\* --------------------------------------------------------- fan-out pipeline
\* largest number of sections of an outline
MaxSections == 2
\* largest number of content units (subsections) of an outline
MaxUnits == 3
\* worker threads of the executor explored (the code's max_workers is 10)
MaxWorkers == 2

RECURSIVE Sum(_)
Sum(seq) == IF seq = <<>> THEN 0 ELSE Head(seq) + Sum(Tail(seq))

\* the outlines the model can return: per section the number of subsections
Outlines ==
    {o \in UNION {[1..n -> 0..MaxUnits] : n \in 0..MaxSections} :
        Sum(o) <= MaxUnits}

\* content_key = f"{section_idx}_{subsection_idx}" (indices from 1 here)
content_key(section_idx, subsection_idx) == <<section_idx, subsection_idx>>

\* the keys of the futures list, in submission order (lines 416-429)
RECURSIVE KeysFrom(_, _)
KeysFrom(outl, i) ==
    IF i > Len(outl) THEN <<>>
    ELSE [j \in 1..outl[i] |-> content_key(i, j)] \o KeysFrom(outl, i + 1)

Futures(outl) == KeysFrom(outl, 1)

\* a slide: type "cover", "section", "content" or "summary"; a content slide
\* carries the key of the unit it was generated for and what happened to the
\* generation: "ok", or the cause that made it an error page
Slide(type, key, cause) == [type |-> type, key |-> key, cause |-> cause]

\* what can happen to one unit: the slide is generated; the gateway call
\* raises (caught at line 361); the model's text is not JSON (caught at line
\* 345); building the request from the subsection raises (lines 218-224,
\* before the try of line 284)
UnitCauses == {"ok", "gateway_error", "unparsable", "build_error"}

\* _generate_slide_content for the unit at key: the slide it returns, or
\* raised when the error happens outside its try block
generate_slide_content(key, cause) ==
    [raised |-> cause = "build_error", slide |-> Slide("content", key, cause)]

\* the key the summary slide is generated under: no unit's position
SummaryKey == <<0, 0>>

Queued == [state |-> "queued", cause |-> ""]

\* faulty variant: the result of a future is taken without waiting for it
AwaitableAlways(k) == TRUE

\* "await future" returns once the unit's worker has finished
Awaitable(k) == units[k].state = "done"

\* position of key k in the futures list
IndexOf(k) == CHOOSE n \in 1..Len(Futures(outline)) : Futures(outline)[n] = k

Running == {k \in DOMAIN units : units[k].state = "running"}

\* lines 395-429: the outline is generated, the cover slide added and one
\* task per subsection submitted to the executor
StartFanOut ==
    /\ fan_pc = "idle"
    /\ \E o \in Outlines :
          /\ outline' = o
          /\ units' = [k \in {Futures(o)[n] : n \in 1..Len(Futures(o))}
                          |-> Queued]
    /\ slides' = <<Slide("cover", <<0, 0>>, "")>>
    /\ fan_pc' = "awaiting"
    /\ UNCHANGED <<awaited, content_results, fan_cause, overtaken>>

\* _generate_ppt_outline raises: caught at line 486
OutlineFails ==
    /\ fan_pc = "idle"
    /\ fan_pc' = "failed"
    /\ fan_cause' = "outline"
    /\ UNCHANGED <<outline, units, awaited, content_results, slides,
                   overtaken>>

\* a free worker thread takes the oldest queued task
UnitStart ==
    /\ Cardinality(Running) < MaxWorkers
    /\ \E k \in DOMAIN units :
          /\ units[k].state = "queued"
          /\ \A q \in DOMAIN units :
                units[q].state = "queued" => IndexOf(k) <= IndexOf(q)
          /\ units' = [units EXCEPT ![k].state = "running"]
    /\ UNCHANGED <<outline, fan_pc, awaited, content_results, slides,
                   fan_cause, overtaken>>

\* a worker thread finishes _generate_slide_content for its unit
UnitFinish ==
    /\ \E k \in Running, cause \in UnitCauses :
          /\ units' = [units EXCEPT ![k] = [state |-> "done", cause |-> cause]]
          /\ overtaken' =
                (overtaken \/ \E q \in DOMAIN units :
                                 /\ IndexOf(q) < IndexOf(k)
                                 /\ units[q].state # "done")
    /\ UNCHANGED <<outline, fan_pc, awaited, content_results, slides,
                   fan_cause>>

\* lines 433-435: one turn of "for content_key, future in futures"; an
\* exception of the future leaves through the except of line 486
AwaitNext ==
    /\ fan_pc = "awaiting"
    /\ awaited < Len(Futures(outline))
    /\ LET k == Futures(outline)[awaited + 1]
           r == generate_slide_content(k, units[k].cause)
       IN  /\ Awaitable(k)
           /\ IF r.raised
              THEN /\ fan_pc' = "failed"
                   /\ fan_cause' = "unit"
                   /\ UNCHANGED <<awaited, content_results>>
              ELSE /\ content_results' =
                          Append(content_results,
                                 [content_key |-> k, result |-> r.slide])
                   /\ awaited' = awaited + 1
                   /\ UNCHANGED <<fan_pc, fan_cause>>
    /\ UNCHANGED <<outline, units, slides, overtaken>>

\* lines 438-439: content_map[content_key] = result
content_map(results) ==
    [k \in {results[n].content_key : n \in 1..Len(results)} |->
        results[CHOOSE n \in 1..Len(results) :
                   /\ results[n].content_key = k
                   /\ \A m \in 1..Len(results) :
                         results[m].content_key = k => m <= n].result]

\* lines 442-455: per section its section slide, then the content slides
\* whose key is in the map
RECURSIVE SubsectionSlides(_, _, _, _)
SubsectionSlides(outl, cmap, i, j) ==
    IF j > outl[i] THEN <<>>
    ELSE (IF content_key(i, j) \in DOMAIN cmap
          THEN <<cmap[content_key(i, j)]>> ELSE <<>>)
         \o SubsectionSlides(outl, cmap, i, j + 1)

RECURSIVE SectionSlides(_, _, _)
SectionSlides(outl, cmap, i) ==
    IF i > Len(outl) THEN <<>>
    ELSE <<Slide("section", <<i, 0>>, "")>>
         \o SubsectionSlides(outl, cmap, i, 1)
         \o SectionSlides(outl, cmap, i + 1)

\* lines 437-455, reached when the loop of line 433 is over
Assemble ==
    /\ fan_pc = "awaiting"
    /\ awaited = Len(Futures(outline))
    /\ slides' = slides \o SectionSlides(outline, content_map(content_results), 1)
    /\ fan_pc' = "assembled"
    /\ UNCHANGED <<outline, units, awaited, content_results, fan_cause,
                   overtaken>>

\* lines 457-477: the summary slide, generated in the calling thread
Summarise ==
    /\ fan_pc = "assembled"
    /\ \E cause \in UnitCauses \ {"build_error"} :
          slides' = Append(slides,
                           generate_slide_content(SummaryKey, cause).slide)
    /\ fan_pc' = "summarised"
    /\ UNCHANGED <<outline, units, awaited, content_results, fan_cause,
                   overtaken>>

\* lines 479-484: create_pptx_from_json writes the file or raises
Render ==
    /\ fan_pc = "summarised"
    /\ \E written \in BOOLEAN :
          /\ fan_pc' = IF written THEN "done" ELSE "failed"
          /\ fan_cause' = IF written THEN fan_cause ELSE "render"
    /\ UNCHANGED <<outline, units, awaited, content_results, slides,
                   overtaken>>

InitFan ==
    /\ store = EmptyStore
    /\ order = <<>>
    /\ capacity = 0
    /\ suffix = 0
    /\ born = EmptyStore
    /\ clock = 0
    /\ last = NoOp
    /\ nOps = 0
    /\ IdleLoop
    /\ known_tools = {}
    /\ conversation_history = <<>>
    /\ IdlePreview
    /\ IdleFan
    /\ IdleChat
    /\ IdleProcess

notFan == <<store, order, capacity, suffix, born, clock, last, nOps,
            known_tools, conversation_history, original_value, preview,
            chat_pc, chat_reply, chat_log, turns, processVars>>

NextFan ==
    \/ StartFanOut /\ UNCHANGED notFan /\ UNCHANGED loopVars
    \/ OutlineFails /\ UNCHANGED notFan /\ UNCHANGED loopVars
    \/ UnitStart /\ UNCHANGED notFan /\ UNCHANGED loopVars
    \/ UnitFinish /\ UNCHANGED notFan /\ UNCHANGED loopVars
    \/ AwaitNext /\ UNCHANGED notFan /\ UNCHANGED loopVars
    \/ Assemble /\ UNCHANGED notFan /\ UNCHANGED loopVars
    \/ Summarise /\ UNCHANGED notFan /\ UNCHANGED loopVars
    \/ Render /\ UNCHANGED notFan /\ UNCHANGED loopVars

SpecFan == InitFan /\ [][NextFan]_vars

\* the content slides of the units in ppt_data["slides"], in their order
\* (the summary slide is a content slide too)
IsContent(s) == s.type = "content" /\ s.key # SummaryKey
ContentSlides == SelectSeq(slides, IsContent)

\* one slide per unit, each generated for the unit of its position
OnePerUnitInPlace ==
    /\ Len(ContentSlides) = Len(Futures(outline))
    /\ \A n \in 1..Len(ContentSlides) :
          ContentSlides[n].key = Futures(outline)[n]

\* the reassembly has happened
Reassembled ==
    \/ fan_pc \in {"assembled", "summarised", "done"}
    \/ fan_pc = "failed" /\ fan_cause = "render"

\* the fan-out is over: reassembled, or given up because of a unit
FanOutOver == Reassembled \/ (fan_pc = "failed" /\ fan_cause = "unit")

\* C18: for every list of units and every completion order the fan-out
\* yields exactly one content result per unit, the result of the unit at
\* (section i, subsection j) at that position; none duplicated, dropped or
\* misplaced.
C18_OneResultPerUnitInPlace == FanOutOver => OnePerUnitInPlace

\* the same once the reassembly was reached
ReassembledInPlace == Reassembled => OnePerUnitInPlace

\* C19: a unit whose generation fails (gateway error, unparsable output, or
\* an error while its request is built) gives a degraded placeholder in its
\* own slot and never aborts the batch.
C19_FailureDegradesInSlot ==
    /\ ~(fan_pc = "failed" /\ fan_cause = "unit")
    /\ FanOutOver =>
          \A n \in 1..Len(Futures(outline)) :
              units[Futures(outline)[n]].cause # "ok" =>
                  /\ n <= Len(ContentSlides)
                  /\ ContentSlides[n] =
                        Slide("content", Futures(outline)[n],
                              units[Futures(outline)[n]].cause)

\* the same for the failures inside the try block of line 284
CaughtFailureDegradesInSlot ==
    Reassembled =>
        \A n \in 1..Len(Futures(outline)) :
            /\ units[Futures(outline)[n]].cause # "build_error"
            /\ n <= Len(ContentSlides)
            /\ ContentSlides[n] =
                  Slide("content", Futures(outline)[n],
                        units[Futures(outline)[n]].cause)

\* C20: the fan-in is a barrier: reassembly, the summary and the rendering
\* start only after every submitted unit has completed.
C20_Barrier ==
    (Reassembled \/ Len(slides) > 1) =>
        \A k \in DOMAIN units : units[k].state = "done"

\* three units were reassembled although one finished before an earlier one
C20_Witness ==
    /\ fan_pc = "assembled"
    /\ Len(Futures(outline)) >= 3
    /\ overtaken
    /\ Len(slides) > 1

\* ------------------------------------------- DialogueService.process_message
\* number of process_message calls in one SpecChat behaviour; the tool
\* invocations of all of them together stay below MaxInvocations
MaxTurns == 2

\* the tools DialogueService registers (SqlExecutionTool, PptCreationTool);
\* set_tool_registry makes them the known tools
DialogueTools == {"execute_sql", "create_ppt"}

\* the texts response.choices[0].message.content can be: None, plain text, or
\* text holding the token {"tool": "var"} (content kind "token"); a synthetic
\* response carries its error text
ChatTexts ==
    IF result.kind = "synthetic" THEN {Content("text", "", NoName)}
    ELSE {NoneContent, Content("text", "", NoName)}
         \cup {Content("token", t, GeneratedName(n)) :
                  t \in CallNames, n \in 1..suffix}

\* a message content as the argument of resolve_placeholders_in_text
TextOf(c) ==
    IF c.kind = "None" THEN NoneText
    ELSE IF c.kind = "token" THEN Text(<<Plain, Token(c.tool, c.var), Plain>>)
    ELSE Text(<<Plain>>)

\* a resolved text as a message content: kind "rendered" when a value was
\* put in
ContentOf(pieces) ==
    IF \E i \in 1..Len(pieces) : pieces[i].kind \in {"html", "json"}
    THEN Content("rendered", "", NoName)
    ELSE IF \E i \in 1..Len(pieces) : pieces[i].kind = "token"
    THEN LET i == CHOOSE j \in 1..Len(pieces) : pieces[j].kind = "token"
         IN  Content("token", pieces[i].tool, pieces[i].var)
    ELSE Content("text", "", NoName)

\* faulty variant: the history keeps what the user was shown
StoredRendered(assistant_message, rendered_message) ==
    ContentOf(rendered_message)

\* lines 540-544: "content": assistant_message
StoredContent(assistant_message, rendered_message) == assistant_message

\* line 549: the error string process_message returns
ErrorReply == <<Piece("error", "", NoName, "")>>

\* lines 503-533: the user message is appended and chat_completion is called
\* with the history itself as messages; with an Excel file loaded the tool
\* catalog comes from the registry and the loop runs (it copies the list at
\* line 140), without one tools = [] and the gateway is called directly
ProcessMessage ==
    /\ chat_pc = "idle"
    /\ pc = "idle"
    /\ turns < MaxTurns
    /\ conversation_history' = Append(conversation_history, UserQuestion)
    /\ messages' = conversation_history'
    /\ \E excel \in BOOLEAN :
          /\ pc' = IF excel THEN "loop" ELSE "direct"
          /\ current_messages' = IF excel THEN messages' ELSE <<>>
    /\ max_tool_rounds' = MaxRounds
    /\ tool_registry' = TRUE
    /\ current_round' = 0
    /\ chat_pc' = "calling"
    /\ turns' = turns + 1
    /\ UNCHANGED <<tool_calls, idx, invoked, dispatched, gwLog, result,
                   tool_outcome, storeOfLoop, nOps, known_tools, previewVars,
                   fanVars, processVars, chat_reply, chat_log>>

\* llm_client.py lines 99-107: one gateway call with the caller's messages
DirectCompletion ==
    /\ pc = "direct"
    /\ \E outcome \in {"final", "error"} :
          /\ gwLog' = Append(gwLog, GatewayCall("direct", messages, FALSE,
                                                outcome))
          /\ result' = IF outcome = "error"
                       THEN OnGatewayError(Len(gwLog) + 1)
                       ELSE Returned([id |-> Len(gwLog) + 1,
                                      content |-> "text",
                                      tool_calls |-> <<>>])
          /\ pc' = IF outcome = "error" THEN "raised" ELSE "returned"
    /\ UNCHANGED <<max_tool_rounds, current_round, messages, current_messages,
                   tool_registry, tool_calls, idx, invoked, dispatched,
                   tool_outcome, storeOfLoop, nOps>>

\* faulty variant: the loop appends to the list its caller passed
SharedList(msgs, transcript) == transcript

\* llm_client.py line 140, current_messages = messages.copy(): the caller's
\* list after the call, given the loop's transcript
CallerList(msgs, transcript) == msgs

\* faulty variant: the user message is taken back when the call fails
RolledBack(history) == SubSeq(history, 1, Len(history) - 1)

\* lines 548-549: the except returns the error string and leaves the
\* history as it is
HistoryOnError(history) == history

\* lines 535-549: the response's text is resolved for the user and stored in
\* the history; an error of chat_completion becomes the returned string
ChatFinish ==
    /\ chat_pc = "calling"
    /\ Ended
    /\ IF result.kind = "raised"
       THEN /\ conversation_history' =
                   HistoryOnError(CallerList(messages, current_messages))
            /\ chat_reply' = ErrorReply
            /\ chat_log' = Append(chat_log, [ok |-> FALSE, raw |-> NoneContent,
                                             rendered |-> <<>>])
       ELSE \E assistant_message \in ChatTexts :
               LET rendered_message ==
                       resolve_placeholders_in_text(TextOf(assistant_message),
                                                    store, known_tools).text
               IN  /\ conversation_history' =
                          Append(CallerList(messages, current_messages),
                                 Msg("assistant",
                                     StoredContent(assistant_message,
                                                   rendered_message),
                                     <<>>, 0))
                   /\ chat_reply' = rendered_message
                   /\ chat_log' = Append(chat_log,
                                         [ok |-> TRUE,
                                          raw |-> assistant_message,
                                          rendered |-> rendered_message])
    /\ chat_pc' = "idle"
    /\ pc' = "idle"
    /\ max_tool_rounds' = 0
    /\ current_round' = 0
    /\ messages' = <<>>
    /\ current_messages' = <<>>
    /\ tool_registry' = FALSE
    /\ tool_calls' = <<>>
    /\ idx' = 0
    /\ dispatched' = 0
    /\ gwLog' = <<>>
    /\ result' = [kind |-> "none"]
    /\ tool_outcome' = NoOutcome
    /\ UNCHANGED <<invoked, storeOfLoop, nOps, known_tools, previewVars,
                   fanVars, processVars, turns>>

InitChat ==
    /\ store = EmptyStore
    /\ order = <<>>
    /\ capacity = LoopCap
    /\ suffix = 0
    /\ born = EmptyStore
    /\ clock = 0
    /\ last = NoOp
    /\ nOps = 0
    /\ IdleLoop
    /\ known_tools = DialogueTools
    /\ conversation_history = <<SystemPrompt>>
    /\ IdlePreview
    /\ IdleFan
    /\ IdleChat
    /\ IdleProcess

NextChat ==
    \/ ProcessMessage
    \/ DirectCompletion /\ UNCHANGED extVars
    \/ GatewayRaises /\ UNCHANGED extVars
    \/ GatewayResponds /\ invoked' < MaxInvocations /\ UNCHANGED extVars
    \/ Dispatch /\ UNCHANGED extVars
    \/ ForcedFinalization /\ UNCHANGED extVars
    \/ ChatFinish

SpecChat == InitChat /\ [][NextChat]_vars

IsAssistant(m) == m.role = "assistant"
WasAnswered(e) == e.ok

\* the assistant messages of the history and the calls that got an answer
StoredAnswers == SelectSeq(conversation_history, IsAssistant)
Answers == SelectSeq(chat_log, WasAnswered)

\* C15: after any sequence of process_message calls every assistant message
\* of the history is the model's unresolved text; the rendering is what the
\* user got and is neither in the history nor in a transcript sent to the
\* gateway.
C15_HistoryUnresolved ==
    /\ Len(StoredAnswers) = Len(Answers)
    /\ \A n \in 1..Len(StoredAnswers) :
          StoredAnswers[n].content = Answers[n].raw
    /\ \A n \in 1..Len(conversation_history) :
          conversation_history[n].content.kind # "rendered"
    /\ \A n \in 1..Len(current_messages) :
          current_messages[n].content.kind # "rendered"
    /\ \A n \in 1..Len(messages) : messages[n].content.kind # "rendered"
    /\ (chat_pc = "idle" /\ Len(chat_log) > 0 /\ chat_log[Len(chat_log)].ok)
          => chat_reply = chat_log[Len(chat_log)].rendered

\* an answer whose token was dereferenced for the user is in the history with
\* its token, and that history has been sent to the gateway again
C15_Witness ==
    /\ chat_pc = "calling"
    /\ Len(gwLog) >= 1
    /\ \E n \in 1..Len(Answers) :
          /\ Answers[n].raw.kind = "token"
          /\ \E i \in 1..Len(Answers[n].rendered) :
                Answers[n].rendered[i].kind \in {"html", "json"}
          /\ StoredAnswers[n].content = Answers[n].raw

\* ------------------------- register_binding called from several worker threads
\* generate_ppt_async runs its units on a ThreadPoolExecutor; every unit's tool
\* calls reach the one MessageVariableProcessor of the gateway, whose
\* register_binding and _evict_if_necessary take no lock.  Each statement of the
\* two methods is one step of the calling thread.
ThreadCount == 2
CallsPerThread == 1

Threads == 1..ThreadCount

NoKey == <<"", GeneratedName(0)>>

\* a thread outside register_binding, having finished calls calls of which
\* raised were ended by an exception
Outside(calls, raised) ==
    [pc |-> "ready", key |-> NoKey, old_key |-> NoKey, calls |-> calls,
     raised |-> raised]

\* the name of call number c of thread t: no other call has it
ThreadName(t, c) == GeneratedName((t - 1) * CallsPerThread + c)

\* lines 46-48: the name is generated and the key built
ThreadCall(t) ==
    /\ threads[t].pc = "ready"
    /\ threads[t].calls < CallsPerThread
    /\ threads' = [threads EXCEPT
          ![t].pc = "put",
          ![t].key = <<"execute_sql", ThreadName(t, threads[t].calls + 1)>>]
    /\ UNCHANGED <<store, order, suffix, inserted>>

\* line 49: self._store[key] = value
ThreadPut(t) ==
    /\ threads[t].pc = "put"
    /\ store' = StorePut(store, threads[t].key, "rows")
    /\ threads' = [threads EXCEPT ![t].pc = "append"]
    /\ UNCHANGED <<order, suffix, inserted>>

\* line 50: self._order.append(key)
ThreadAppend(t) ==
    /\ threads[t].pc = "append"
    /\ order' = Append(order, threads[t].key)
    /\ inserted' = Append(inserted, threads[t].key)
    /\ threads' = [threads EXCEPT ![t].pc = "check"]
    /\ UNCHANGED <<store, suffix>>

\* line 239: the loop test; when it fails the call returns
ThreadCheck(t) ==
    /\ threads[t].pc = "check"
    /\ threads' = IF ShouldEvict(order, capacity)
                  THEN [threads EXCEPT ![t].pc = "pop"]
                  ELSE [threads EXCEPT ![t] = Outside(@.calls + 1, @.raised)]
    /\ UNCHANGED <<store, order, suffix, inserted>>

\* line 240: old_key = self._order.pop(0); IndexError on an empty list ends
\* the call
ThreadPop(t) ==
    /\ threads[t].pc = "pop"
    /\ IF order = <<>>
       THEN /\ threads' = [threads EXCEPT ![t] = Outside(@.calls + 1, @.raised + 1)]
            /\ UNCHANGED order
       ELSE /\ threads' = [threads EXCEPT ![t].pc = "unstore",
                                          ![t].old_key = OldKey(order)]
            /\ order' = PopOldest(order)
    /\ UNCHANGED <<store, suffix, inserted>>

\* line 241: self._store.pop(old_key, None)
ThreadUnstore(t) ==
    /\ threads[t].pc = "unstore"
    /\ store' = StorePop(store, threads[t].old_key)
    /\ threads' = [threads EXCEPT ![t].pc = "check"]
    /\ UNCHANGED <<order, suffix, inserted>>

\* everything the thread steps leave alone
notThreads == <<capacity, born, clock, last, nOps, known_tools,
                conversation_history, previewVars, fanVars, chatVars,
                sessionVars, parseVars, pptVars, ctorVars>>

InitThreads ==
    /\ store = EmptyStore
    /\ order = <<>>
    /\ capacity \in 0..MaxCap
    /\ suffix = 0
    /\ born = EmptyStore
    /\ clock = 0
    /\ last = NoOp
    /\ nOps = 0
    /\ IdleLoop
    /\ known_tools = {}
    /\ conversation_history = <<>>
    /\ IdlePreview
    /\ IdleFan
    /\ IdleChat
    /\ IdleSessions
    /\ IdleParse
    /\ IdlePpt
    /\ IdleCtor
    /\ threads = [t \in Threads |-> Outside(0, 0)]
    /\ inserted = <<>>

NextThreads ==
    \/ \E t \in Threads : ThreadCall(t) /\ UNCHANGED notThreads /\ UNCHANGED loopVars
    \/ \E t \in Threads : ThreadPut(t) /\ UNCHANGED notThreads /\ UNCHANGED loopVars
    \/ \E t \in Threads : ThreadAppend(t) /\ UNCHANGED notThreads /\ UNCHANGED loopVars
    \/ \E t \in Threads : ThreadCheck(t) /\ UNCHANGED notThreads /\ UNCHANGED loopVars
    \/ \E t \in Threads : ThreadPop(t) /\ UNCHANGED notThreads /\ UNCHANGED loopVars
    \/ \E t \in Threads : ThreadUnstore(t) /\ UNCHANGED notThreads /\ UNCHANGED loopVars

SpecThreads == InitThreads /\ [][NextThreads]_vars

\* the set of the elements of a sequence
Range(s) == {s[i] : i \in 1..Len(s)}

\* the last n elements of s (all of them when s is shorter)
LastOf(s, n) == SubSeq(s, Len(s) - Min(n, Len(s)) + 1, Len(s))

\* no thread is inside register_binding
Quiescent == \A t \in Threads : threads[t].pc = "ready"

\* thread t is between two of its calls, where it can look at the store
Observes(t) == threads[t].pc = "ready"

\* C21: register_binding calls of different worker threads are serialized: no
\* thread observes more than capacity live bindings, no call fails, keys leave
\* in the one order they were inserted in, and once every call has returned the
\* store holds exactly the capacity most recently inserted keys.
C21_RegisterSerialized ==
    /\ (\E t \in Threads : Observes(t)) => Cardinality(DOMAIN store) <= capacity
    /\ \A t \in Threads : threads[t].raised = 0
    /\ Quiescent => /\ order = LastOf(inserted, capacity)
                    /\ DOMAIN store = Range(order)

\* every call has returned and fewer keys are live than the capacity allows,
\* although more keys than that were inserted
OverEvicted ==
    /\ Quiescent
    /\ Len(inserted) >= capacity
    /\ Cardinality(DOMAIN store) < capacity

\* a thread sees more live bindings than the capacity while another thread is
\* between its insert and its evict
SeesTooMany ==
    \E t \in Threads : Observes(t) /\ Cardinality(DOMAIN store) > capacity

\* --------------------------------------------- sessions and the gateway object
\* web_app keeps one DialogueService per session; each DialogueService takes
\* its gateway from OpenAIConnector(), whose __new__ hands out the instance
\* kept in the class attribute _instance.
SessionCount == 2
SessionTurns == 2

\* lines 38-47 of llm_client.py: the fields _initialize sets (tool_registry 0 is
\* None, else the session whose ToolRegistry it is; tool_context 0 is {}, else
\* the file of its excel_orchestrator; st and ord are the BindingStore)
NewConnector ==
    [tool_registry |-> 0, tool_context |-> 0, known |-> {},
     st |-> EmptyStore, ord |-> <<>>]

\* OpenAIConnector(): the index of the object __new__ returns, called with the
\* class attribute inst and the objects cs, from one thread
ConstructedConnector(inst, cs) == IF inst = 0 THEN Len(cs) + 1 ELSE inst

\* the objects after OpenAIConnector()
ConnectorsAfter(inst, cs) ==
    IF ConstructedConnector(inst, cs) > Len(cs) THEN Append(cs, NewConnector)
    ELSE cs

\* set_tool_registry: the registry is replaced and its tool names are made
\* known to the processor
set_tool_registry(c, owner) ==
    [c EXCEPT !.tool_registry = owner, !.known = @ \cup DialogueTools]

\* update_tool_context({"excel_orchestrator": ...})
update_tool_context(c, file) == [c EXCEPT !.tool_context = file]

\* DialogueService.__init__ for session s, then load_excel of the session's
\* file (upload_excel of web_app does both); the file of session s is s
Upload ==
    /\ Len(sessions) < SessionCount
    /\ LET s   == Len(sessions) + 1
           llm == ConstructedConnector(instance, connectors)
           cs  == ConnectorsAfter(instance, connectors)
       IN  /\ instance' = IF instance = 0 THEN llm ELSE instance
           /\ connectors' =
                 [cs EXCEPT ![llm] = update_tool_context(set_tool_registry(@, s), s)]
           /\ sessions' = Append(sessions,
                 [llm_client |-> llm, excel_orchestrator |-> s,
                  conversation_history |-> <<SystemPrompt, SystemPrompt>>,
                  read_from |-> 0, asked |-> 0])
    /\ UNCHANGED suffix

\* process_message in chat mode for session s: the user message, a
\* chat_completion that dispatches one execute_sql call (calls) or none, the
\* assistant message.  The call runs on the gateway's registry with the
\* gateway's tool_context, and its result is bound in the gateway's store.
SessionChat(s, calls) ==
    /\ s \in 1..Len(sessions)
    /\ sessions[s].asked < SessionTurns
    /\ LET llm  == sessions[s].llm_client
           c    == connectors[llm]
           name == GeneratedName(suffix + 1)
           r    == register_binding(c.st, c.ord, LoopCap, "execute_sql",
                                    c.tool_context, name)
           reply == Msg("assistant",
                        IF calls THEN Content("token", "execute_sql", name)
                        ELSE Content("text", "", NoName), <<>>, 0)
       IN  /\ connectors' = IF calls
                            THEN [connectors EXCEPT ![llm].st = r.store,
                                                    ![llm].ord = r.order]
                            ELSE connectors
           /\ suffix' = IF calls THEN suffix + 1 ELSE suffix
           /\ sessions' = [sessions EXCEPT
                 ![s].conversation_history = @ \o <<UserQuestion, reply>>,
                 ![s].read_from = IF calls THEN c.tool_context ELSE @,
                 ![s].asked = @ + 1]
    /\ UNCHANGED instance

notSessions == <<store, order, capacity, born, clock, last, nOps, known_tools,
                 conversation_history, previewVars, fanVars, chatVars,
                 workerVars, parseVars, pptVars, ctorVars>>

InitSessions ==
    /\ store = EmptyStore
    /\ order = <<>>
    /\ capacity = LoopCap
    /\ suffix = 0
    /\ born = EmptyStore
    /\ clock = 0
    /\ last = NoOp
    /\ nOps = 0
    /\ IdleLoop
    /\ IdleExt

NextSessions ==
    \/ Upload /\ UNCHANGED notSessions /\ UNCHANGED loopVars
    \/ \E s \in 1..SessionCount, calls \in BOOLEAN :
          SessionChat(s, calls) /\ UNCHANGED notSessions /\ UNCHANGED loopVars

SpecSessions == InitSessions /\ [][NextSessions]_vars

\* what the operations of session b work with: its history and the tool
\* context, registry, known tools and bindings of its gateway
View(b) ==
    [conversation_history |-> sessions[b].conversation_history,
     tool_context |-> connectors[sessions[b].llm_client].tool_context,
     tool_registry |-> connectors[sessions[b].llm_client].tool_registry,
     known |-> connectors[sessions[b].llm_client].known,
     bindings |-> connectors[sessions[b].llm_client].st]

\* the step is an operation of session a
ActsIn(a) == a > Len(sessions) \/ sessions'[a] # sessions[a]

\* C22: sessions are independent: an operation of one session changes nothing
\* of the history, tool context, tool registry, known tools and bindings that
\* another session works with.
C22_SessionsIndependent ==
    [][\A a \in 1..Len(sessions'), b \in 1..Len(sessions) :
          (a # b /\ ActsIn(a)) => View(b)' = View(b)]_vars

\* a tool call of one session ran on the file of another session
ReadOtherFile ==
    \E s \in 1..Len(sessions) :
        sessions[s].read_from \notin {0, sessions[s].excel_orchestrator}

\* the histories stay apart: a session's history holds its own turns only
HistoriesApart ==
    \A s \in 1..Len(sessions) :
        Len(sessions[s].conversation_history) = 2 + 2 * sessions[s].asked

\* ------------------------------------- units that outlive the fan-out operation
\* A unit is _generate_slide_content running on an executor thread: its
\* chat_completion (line 286) runs the tool loop on the session's gateway, and
\* every dispatched tool call ends in register_binding on the gateway's
\* BindingStore.  The except of line 486 ends generate_ppt_async when the
\* await of line 434 raises; nothing cancels or waits for the other units.
UnitCalls == 2

\* the fan-out operation was given up with units not yet finished
Abandoned ==
    /\ fan_pc = "failed"
    /\ fan_cause = "unit"

InFlight == {k \in DOMAIN units : units[k].state # "done"}

\* llm_client.py line 270, reached from line 286 of a running unit: the
\* result of one of the unit's tool calls is bound
UnitRegisters ==
    /\ nOps < UnitCalls
    /\ Running # {}
    /\ RegisterStep("execute_sql", "rows", FALSE, NoName)
    /\ nOps' = nOps + 1
    /\ UNCHANGED <<known_tools, conversation_history, previewVars, fanVars,
                   chatVars, processVars>>

InitAbandon ==
    /\ store = EmptyStore
    /\ order = <<>>
    /\ capacity = LoopCap
    /\ suffix = 0
    /\ born = EmptyStore
    /\ clock = 0
    /\ last = NoOp
    /\ nOps = 0
    /\ IdleLoop
    /\ IdleExt

NextAbandon ==
    \/ StartFanOut /\ UNCHANGED notFan /\ UNCHANGED loopVars
    \/ OutlineFails /\ UNCHANGED notFan /\ UNCHANGED loopVars
    \/ UnitStart /\ UNCHANGED notFan /\ UNCHANGED loopVars
    \/ UnitRegisters /\ UNCHANGED loopVars
    \/ UnitFinish /\ UNCHANGED notFan /\ UNCHANGED loopVars
    \/ AwaitNext /\ UNCHANGED notFan /\ UNCHANGED loopVars
    \/ Assemble /\ UNCHANGED notFan /\ UNCHANGED loopVars
    \/ Summarise /\ UNCHANGED notFan /\ UNCHANGED loopVars
    \/ Render /\ UNCHANGED notFan /\ UNCHANGED loopVars

SpecAbandon == InitAbandon /\ [][NextAbandon]_vars

\* C23: once the fan-out operation is abandoned, the units in flight run to
\* completion and change nothing but their own output slot: the BindingStore,
\* the collected results and the slides stay as they were.
C23_AbandonedUnitsIsolated ==
    [][Abandoned =>
          /\ store' = store
          /\ order' = order
          /\ content_results' = content_results
          /\ slides' = slides
          /\ \A k \in DOMAIN units \ InFlight : units'[k] = units[k]]_vars

\* the units still run to completion, and their results are never collected
RunToCompletion ==
    [][Abandoned =>
          /\ content_results' = content_results
          /\ slides' = slides
          /\ \A k \in DOMAIN units \ InFlight : units'[k] = units[k]]_vars

\* ------------------------------------------------- _parse_llm_json_response
\* The text is a sequence of symbols: whitespace, the opening fence of a
\* json code block, the bare fence, and JSON documents (an object, an array, a malformed one).
MaxSymbols == 3

WS == " "
FenceJson == "fence_json"
Fence == "fence"
Documents == {"object", "array", "broken"}
Symbols == {WS, FenceJson, Fence} \cup Documents

RECURSIVE Texts(_)
\* the texts of at most n symbols
Texts(n) ==
    IF n = 0 THEN {<<>>}
    ELSE Texts(n - 1) \cup
         {Append(t, y) : t \in {u \in Texts(n - 1) : Len(u) = n - 1},
                         y \in Symbols}

RECURSIVE lstrip(_)
lstrip(s) == IF s # <<>> /\ Head(s) = WS THEN lstrip(Tail(s)) ELSE s

RECURSIVE rstrip(_)
rstrip(s) ==
    IF s # <<>> /\ s[Len(s)] = WS THEN rstrip(SubSeq(s, 1, Len(s) - 1)) ELSE s

\* str.strip()
strip(s) == rstrip(lstrip(s))

\* lines 57-62: strip, drop a leading json fence, drop a trailing fence, strip
Cleaned(content) ==
    LET a == strip(content)
        b == IF a # <<>> /\ Head(a) = FenceJson THEN Tail(a) ELSE a
        c == IF b # <<>> /\ b[Len(b)] = Fence
             THEN SubSeq(b, 1, Len(b) - 1) ELSE b
    IN  strip(c)

IsDocument(y) == y # WS

\* json.loads: one well-formed document, whitespace around it allowed
json_loads(s) ==
    LET docs == SelectSeq(s, IsDocument)
    IN  IF Len(docs) = 1 /\ docs[1] \in {"object", "array"}
        THEN [ok |-> TRUE, value |-> docs[1]]
        ELSE [ok |-> FALSE, value |-> "JSONDecodeError"]

Outcome(kind, type, message) ==
    [kind |-> kind, type |-> type, message |-> message]

\* lines 64-70: the value, or ValueError whose message is the fixed prefix
\* and the decoder's message; the excerpt content[:200] goes to the log
parse_llm_json_response(content) ==
    LET r == json_loads(Cleaned(content))
    IN  IF r.ok
        THEN [result |-> Outcome("value", r.value, <<>>), log |-> <<>>]
        ELSE [result |-> Outcome("raised", "ValueError",
                                 <<"invalid_json", "decoder_message">>),
              log |-> << <<"parse_failed", "context", "decoder_message">>,
                         <<"raw_content", "raw_excerpt">> >>]

\* lines 191-198 of _generate_ppt_outline, as generate_ppt_async's caller
\* sees them: the outline, or an exception (RuntimeError for the ValueError,
\* AttributeError when outline.get meets a value that is no dict)
outline_site(content) ==
    LET p == parse_llm_json_response(content)
    IN  IF p.result.kind = "raised"
        THEN [p EXCEPT !.result = Outcome("raised", "RuntimeError",
                                          <<"outline_failed">> \o @.message)]
        ELSE IF p.result.type = "object" THEN p
        ELSE [p EXCEPT !.result = Outcome("raised", "AttributeError",
                                          <<"no_attribute_get">>)]

\* lines 303-372 of _generate_slide_content: the slide, or an error page
\* whose text is the exception's message
slide_site(content) ==
    LET p == parse_llm_json_response(content)
    IN  IF p.result.kind = "raised"
        THEN [p EXCEPT !.result = Outcome("error_page", "ValueError",
                                          <<"content_failed">> \o @.message)]
        ELSE IF p.result.type = "object" THEN p
        ELSE [result |-> Outcome("error_page", "AttributeError",
                                 <<"generation_error", "no_attribute_get">>),
              log |-> << <<"slide_failed", "no_attribute_get">> >>]

Parse ==
    /\ parse_pc = "ready"
    /\ LET p == IF parse_site = "outline" THEN outline_site(parse_content)
                ELSE slide_site(parse_content)
       IN  /\ parse_result' = p.result
           /\ parse_log' = p.log
    /\ parse_pc' = "done"
    /\ UNCHANGED <<parse_content, parse_site>>

InitParse ==
    /\ store = EmptyStore
    /\ order = <<>>
    /\ capacity = LoopCap
    /\ suffix = 0
    /\ born = EmptyStore
    /\ clock = 0
    /\ last = NoOp
    /\ nOps = 0
    /\ IdleLoop
    /\ known_tools = {}
    /\ conversation_history = <<>>
    /\ IdlePreview
    /\ IdleFan
    /\ IdleChat
    /\ IdleWorkers
    /\ IdleSessions
    /\ IdlePpt
    /\ IdleCtor
    /\ parse_content \in Texts(MaxSymbols)
    /\ parse_site \in {"outline", "slide"}
    /\ parse_pc = "ready"
    /\ parse_result = Outcome("none", "", <<>>)
    /\ parse_log = <<>>

NextParse ==
    Parse /\ UNCHANGED <<store, order, capacity, suffix, born, clock, last,
                         nOps, known_tools, conversation_history, previewVars,
                         fanVars, chatVars, workerVars, sessionVars,
                         pptVars, ctorVars>>
          /\ UNCHANGED loopVars

SpecParse == InitParse /\ [][NextParse]_vars

\* the text is not one JSON document, bare or inside a json fence
Unparsable(content) == ~json_loads(Cleaned(content)).ok

\* C24: a model-authored text that fails to parse reaches the caller as an
\* explicit error carrying an excerpt of the raw content, never as a value.
C24_ParseFailureCarriesExcerpt ==
    (parse_pc = "done" /\ Unparsable(parse_content)) =>
        /\ parse_result.kind \in {"raised", "error_page"}
        /\ "raw_excerpt" \in Range(parse_result.message)

\* the failure is explicit and the excerpt is written to the log only
ExplicitFailureExcerptLogged ==
    (parse_pc = "done" /\ Unparsable(parse_content)) =>
        /\ parse_result.kind \in {"raised", "error_page"}
        /\ "decoder_message" \in Range(parse_result.message)
        /\ \E i \in 1..Len(parse_log) : "raw_excerpt" \in Range(parse_log[i])

\* ------------------------------------------------ bindings and failed dispatch
\* the step is one turn of the loop of line 182
DispatchStep == dispatched' = dispatched + 1

\* the invocation reached a handler and the handler reported success
Succeeded(o) ==
    /\ o.called
    /\ o.tool \in Handlers
    /\ o.behaviour \in {"ok", "nonstr"}

\* the tool-role message the step appended
Appended == current_messages'[Len(current_messages')]

\* C25: a binding is registered for an invocation exactly when its dispatch
\* succeeded, and then the tool-role message is the compact payload naming
\* that binding; a failed dispatch (the tool reports failure, the tool is
\* unknown, the handler raises) appends the error payload and leaves the
\* BindingStore as it was.
C25_BindsIffSucceeded ==
    [][DispatchStep =>
          IF Succeeded(tool_outcome')
          THEN /\ last'.op = "register"
               /\ <<last'.tool, last'.name>> \in DOMAIN store' \ DOMAIN store
               /\ (tool_outcome'.behaviour = "ok" =>
                      Appended.content =
                          Content("lightweight", last'.tool, last'.name))
          ELSE /\ Appended.content.kind = "error"
               /\ store' = store
               /\ order' = order]_vars

\* what the code does: every result execute_tool returns is bound, the error
\* payloads included, and only an invocation that never reaches execute_tool
\* leaves the store alone
BindsEveryResult ==
    [][DispatchStep =>
          IF tool_outcome'.called
          THEN /\ last'.op = "register"
               /\ order' # order
               /\ (Serialisable(last'.value) =>
                      Appended.content =
                          Content("lightweight", last'.tool, last'.name))
          ELSE /\ Appended.content.kind = "error"
               /\ store' = store
               /\ order' = order]_vars

\* the error payload of a failed dispatch was bound and a live binding left
\* the store for it
FailureEvicted ==
    /\ FailedDispatch
    /\ last.op = "register"
    /\ last.value \in {"unknown_tool_error", "tool_failed_error"}
    /\ last.removed # <<>>

\* --------------------------------------------- the caller's list and the loop
\* the step is the return of process_message in chat mode
FinishStep == chat_pc = "calling" /\ chat_pc' = "idle"

\* C26: the tool loop appends to its own copy only: while chat_completion
\* runs and after it has returned or raised, the list its caller passed has
\* the length and entries it had when the call was made, so the history
\* gains nothing but the assistant message process_message itself appends.
C26_CallerListUntouched ==
    /\ [](chat_pc = "calling" => messages = conversation_history)
    /\ [][FinishStep =>
             IF result.kind = "raised"
             THEN conversation_history' = conversation_history
             ELSE /\ Len(conversation_history') = Len(conversation_history) + 1
                  /\ SubSeq(conversation_history', 1, Len(conversation_history))
                        = conversation_history
                  /\ IsAssistant(conversation_history'[Len(conversation_history')])
                  /\ conversation_history'[Len(conversation_history')].tool_calls
                        = <<>>]_vars

\* chat_completion is over after the forced call, its transcript holds the
\* assistant turns, the tool messages and the directive, and the list of its
\* caller is as long as it was
C26_Witness ==
    /\ chat_pc = "calling"
    /\ Ended
    /\ Cardinality(GatewayCalls("forced")) = 1
    /\ Len(current_messages) >= Len(messages) + 3
    /\ current_messages[Len(current_messages)] = Directive
    /\ messages = conversation_history

\* -------------------------------------------- the history after a chat call
\* a gateway call of the chat_completion now ending failed
GatewayFailed == \E i \in 1..Len(gwLog) : gwLog[i].outcome = "error"

\* the history gained exactly one assistant message
OneAssistantAppended ==
    /\ Len(conversation_history') = Len(conversation_history) + 1
    /\ SubSeq(conversation_history', 1, Len(conversation_history))
          = conversation_history
    /\ IsAssistant(conversation_history'[Len(conversation_history')])
    /\ conversation_history[Len(conversation_history)] = UserQuestion

\* the error string is returned and the history keeps the user message and
\* gains nothing
ErrorNoRollback ==
    /\ chat_reply' = ErrorReply
    /\ conversation_history' = conversation_history
    /\ conversation_history[Len(conversation_history)] = UserQuestion

\* the call being made follows a failed one: the list sent ends with the two
\* user messages
AfterFailure ==
    /\ chat_pc = "calling"
    /\ Len(chat_log) > 0
    /\ ~chat_log[Len(chat_log)].ok

TwoUserMessages ==
    /\ Len(messages) >= 2
    /\ messages[Len(messages)].role = "user"
    /\ messages[Len(messages) - 1].role = "user"

\* C27 as stated: a successful process_message appends the user message and
\* one assistant message; when the gateway call fails it returns an error
\* string, appends no assistant message and keeps the user message, so the
\* next call sends two consecutive user messages.
C27_GatewayFailureNoAssistant ==
    /\ [](AfterFailure => TwoUserMessages)
    /\ [][FinishStep =>
             IF GatewayFailed THEN ErrorNoRollback
             ELSE OneAssistantAppended]_vars

\* C27 (amended): a process_message whose chat_completion returns appends the
\* user message and one assistant message; this includes the forced
\* finalization call failing, whose synthetic error text becomes the
\* assistant message.  When chat_completion raises (the gateway fails in a
\* direct call or a normal round) it returns an error string, appends no
\* assistant message and keeps the user message, so the next call sends two
\* consecutive user messages.
C27_RaisedCallNoAssistant ==
    /\ [](AfterFailure => TwoUserMessages)
    /\ [][FinishStep =>
             IF result.kind = "raised" THEN ErrorNoRollback
             ELSE OneAssistantAppended]_vars

\* a call failed, and the next call has sent the history with its two
\* consecutive user messages to the gateway
C27_Witness ==
    /\ AfterFailure
    /\ TwoUserMessages
    /\ Len(gwLog) >= 1
    /\ gwLog[1].nmsgs = Len(conversation_history)
    /\ chat_reply = ErrorReply

\* the forced call failed and its error text is going into the history as
\* the assistant message
ForcedFailureAnswered ==
    /\ chat_pc = "calling"
    /\ Ended
    /\ result.kind = "synthetic"
    /\ GatewayFailed

\* ------------------------------------- process_message with generate_ppt=True
\* The calling thread either has no running event loop (a plain thread) or
\* is the thread of a running loop (generate_ppt_task of web_app is an async
\* function and calls process_message directly).
Contexts == {"no_loop", "running_loop"}

\* asyncio.get_running_loop() raises RuntimeError without a running loop
get_running_loop_raises(context) == context = "no_loop"

\* loop.run_until_complete raises RuntimeError ("Cannot run the event loop
\* while another loop is running") in the thread of a running loop
run_until_complete_raises(context) == context = "running_loop"

\* asyncio.run raises RuntimeError ("asyncio.run() cannot be called from a
\* running event loop") in the thread of a running loop
asyncio_run_raises(context) == context = "running_loop"

notPpt == <<store, order, capacity, suffix, born, clock, last, nOps,
            known_tools, previewVars, fanVars, chatVars, workerVars,
            sessionVars, parseVars, ctorVars>>

\* lines 503-508: the user message is appended, the generate_ppt branch taken
PptCall ==
    /\ ppt_pc = "idle"
    /\ conversation_history' = Append(conversation_history, UserQuestion)
    /\ ppt_context' \in Contexts
    /\ ppt_pc' = "get_running_loop"
    /\ UNCHANGED ppt_result

\* line 512
GetRunningLoop ==
    /\ ppt_pc = "get_running_loop"
    /\ ppt_pc' = IF get_running_loop_raises(ppt_context) THEN "handler"
                 ELSE "run_until_complete"
    /\ UNCHANGED <<ppt_context, ppt_result, conversation_history>>

\* lines 514-518: a new loop is made and asked to run the pipeline; the
\* RuntimeError it raises is inside the try of line 510
RunUntilComplete ==
    /\ ppt_pc = "run_until_complete"
    /\ ppt_pc' = IF run_until_complete_raises(ppt_context) THEN "handler"
                 ELSE "pipeline"
    /\ UNCHANGED <<ppt_context, ppt_result, conversation_history>>

\* lines 519-521: except RuntimeError: asyncio.run(...); its RuntimeError
\* leaves process_message
Handler ==
    /\ ppt_pc = "handler"
    /\ ppt_pc' = IF asyncio_run_raises(ppt_context) THEN "raised"
                 ELSE "pipeline"
    /\ UNCHANGED <<ppt_context, ppt_result, conversation_history>>

\* line 522: the message generate_ppt_async returned (lines 484 and 489)
PptReturn ==
    /\ ppt_pc = "pipeline"
    /\ fan_pc \in {"done", "failed"}
    /\ ppt_result' = IF fan_pc = "done" THEN "success_message"
                     ELSE "failure_message"
    /\ ppt_pc' = "returned"
    /\ UNCHANGED <<ppt_context, conversation_history>>

InitPpt ==
    /\ store = EmptyStore
    /\ order = <<>>
    /\ capacity = LoopCap
    /\ suffix = 0
    /\ born = EmptyStore
    /\ clock = 0
    /\ last = NoOp
    /\ nOps = 0
    /\ IdleLoop
    /\ known_tools = DialogueTools
    /\ conversation_history = <<SystemPrompt>>
    /\ IdlePreview
    /\ IdleFan
    /\ IdleChat
    /\ IdleProcess

InPipeline == ppt_pc = "pipeline"

NextPpt ==
    \/ PptCall /\ UNCHANGED notPpt /\ UNCHANGED loopVars
    \/ GetRunningLoop /\ UNCHANGED notPpt /\ UNCHANGED loopVars
    \/ RunUntilComplete /\ UNCHANGED notPpt /\ UNCHANGED loopVars
    \/ Handler /\ UNCHANGED notPpt /\ UNCHANGED loopVars
    \/ InPipeline /\ StartFanOut /\ UNCHANGED notFan /\ UNCHANGED loopVars
    \/ InPipeline /\ OutlineFails /\ UNCHANGED notFan /\ UNCHANGED loopVars
    \/ InPipeline /\ UnitStart /\ UNCHANGED notFan /\ UNCHANGED loopVars
    \/ InPipeline /\ UnitFinish /\ UNCHANGED notFan /\ UNCHANGED loopVars
    \/ InPipeline /\ AwaitNext /\ UNCHANGED notFan /\ UNCHANGED loopVars
    \/ InPipeline /\ Assemble /\ UNCHANGED notFan /\ UNCHANGED loopVars
    \/ InPipeline /\ Summarise /\ UNCHANGED notFan /\ UNCHANGED loopVars
    \/ InPipeline /\ Render /\ UNCHANGED notFan /\ UNCHANGED loopVars
    \/ PptReturn /\ UNCHANGED notPpt /\ UNCHANGED loopVars

SpecPpt == InitPpt /\ [][NextPpt]_vars

\* C28: called with generate_ppt=True, process_message runs the pipeline and
\* returns its result message, from a thread without a running event loop as
\* well as from inside a running loop: it never raises to its caller, and it
\* never ends without the pipeline having run.
C28_PipelineRunsInBothContexts ==
    /\ ppt_pc # "raised"
    /\ ppt_pc = "returned" =>
          /\ fan_pc \in {"done", "failed"}
          /\ ppt_result \in {"success_message", "failure_message"}

\* what the code does: without a running loop the pipeline runs and its
\* message is returned; inside a running loop every path raises before the
\* pipeline starts
OnlyWithoutLoop ==
    /\ ppt_context = "no_loop" => ppt_pc # "raised"
    /\ ppt_pc = "returned" =>
          /\ fan_pc \in {"done", "failed"}
          /\ ppt_result \in {"success_message", "failure_message"}
    /\ ppt_context = "running_loop" =>
          /\ fan_pc = "idle"
          /\ ppt_pc \notin {"pipeline", "returned"}

\* process_message raised inside the running loop, the pipeline not started
RaisedInsideLoop ==
    /\ ppt_pc = "raised"
    /\ ppt_context = "running_loop"
    /\ fan_pc = "idle"

\* ------------------------------------------- OpenAIConnector.__new__, threads
\* Each statement of __new__, _initialize and get_instance is one step of the
\* calling thread.  An object is the set of attributes set on it so far.
CtorThreads == 2
CtorCalls == 2

Callers == 1..CtorThreads

\* the attributes _initialize sets (lines 38-50)
ClientAttrs == {"client", "default_model"}
ToolAttrs == {"tool_registry", "tool_context", "message_var_processor",
              "llm_logs"}
AllAttrs == ClientAttrs \cup ToolAttrs

\* a thread between calls: calls made so far, the object and the attributes
\* the last call returned (got 0: nothing returned), the calls that raised
Between(calls, got, seen, raised) ==
    [pc |-> "idle", api_key |-> FALSE, calls |-> calls, got |-> got,
     seen |-> seen, raised |-> raised]

\* OpenAIConnector(api_key) is called: line 21 is next
CallNew(t) ==
    /\ callers[t].pc = "idle"
    /\ callers[t].calls < CtorCalls
    /\ \E k \in BOOLEAN :
          callers' = [callers EXCEPT ![t].pc = "check", ![t].api_key = k]
    /\ UNCHANGED <<instance, lock, objects, env_key>>

\* get_instance (lines 55-63): the instance, or cls() when there is none and
\* the environment has a key, or ValueError
GetInstance(t) ==
    /\ callers[t].pc = "idle"
    /\ callers[t].calls < CtorCalls
    /\ callers' =
          IF instance # 0
          THEN [callers EXCEPT ![t] = Between(@.calls + 1, instance,
                                              objects[instance], @.raised)]
          ELSE IF env_key THEN [callers EXCEPT ![t].pc = "check"]
          ELSE [callers EXCEPT ![t] = Between(@.calls + 1, 0, {},
                                              @.raised + 1)]
    /\ UNCHANGED <<instance, lock, objects, env_key>>

\* line 21: if cls._instance is None, read without the lock
FirstCheck(t) ==
    /\ callers[t].pc = "check"
    /\ callers' = [callers EXCEPT ![t].pc = IF instance = 0 THEN "acquire"
                                            ELSE "return"]
    /\ UNCHANGED <<instance, lock, objects, env_key>>

\* line 22: with cls._lock
Acquire(t) ==
    /\ callers[t].pc = "acquire"
    /\ lock = 0
    /\ lock' = t
    /\ callers' = [callers EXCEPT ![t].pc = "recheck"]
    /\ UNCHANGED <<instance, objects, env_key>>

\* line 23: the second test, under the lock
SecondCheck(t) ==
    /\ callers[t].pc = "recheck"
    /\ callers' = [callers EXCEPT ![t].pc = IF instance = 0 THEN "allocate"
                                            ELSE "release"]
    /\ UNCHANGED <<instance, lock, objects, env_key>>

\* line 24: cls._instance = super().__new__(cls)
Allocate(t) ==
    /\ callers[t].pc = "allocate"
    /\ objects' = Append(objects, {})
    /\ instance' = Len(objects) + 1
    /\ callers' = [callers EXCEPT ![t].pc = "key"]
    /\ UNCHANGED <<lock, env_key>>

\* lines 31-36: no key as argument nor in the environment: ValueError
\* leaves _initialize, the with block and __new__
CheckKey(t) ==
    /\ callers[t].pc = "key"
    /\ IF callers[t].api_key \/ env_key
       THEN /\ callers' = [callers EXCEPT ![t].pc = "client"]
            /\ UNCHANGED lock
       ELSE /\ callers' = [callers EXCEPT ![t] = Between(@.calls + 1, 0, {},
                                                        @.raised + 1)]
            /\ lock' = 0
    /\ UNCHANGED <<instance, objects, env_key>>

\* lines 38-40
SetClient(t) ==
    /\ callers[t].pc = "client"
    /\ objects' = [objects EXCEPT ![instance] = @ \cup ClientAttrs]
    /\ callers' = [callers EXCEPT ![t].pc = "tools"]
    /\ UNCHANGED <<instance, lock, env_key>>

\* lines 43-50
SetToolFields(t) ==
    /\ callers[t].pc = "tools"
    /\ objects' = [objects EXCEPT ![instance] = @ \cup ToolAttrs]
    /\ callers' = [callers EXCEPT ![t].pc = "release"]
    /\ UNCHANGED <<instance, lock, env_key>>

\* the end of the with block
Release(t) ==
    /\ callers[t].pc = "release"
    /\ lock' = 0
    /\ callers' = [callers EXCEPT ![t].pc = "return"]
    /\ UNCHANGED <<instance, objects, env_key>>

\* line 26: return cls._instance; seen is the object as the caller gets it
Return(t) ==
    /\ callers[t].pc = "return"
    /\ callers' = [callers EXCEPT ![t] = Between(@.calls + 1, instance,
                                                 objects[instance], @.raised)]
    /\ UNCHANGED <<instance, lock, objects, env_key>>

\* the key is put in the environment (config_manager.apply_to_environment)
SetEnvKey ==
    /\ ~env_key
    /\ env_key' = TRUE
    /\ UNCHANGED <<instance, lock, objects, callers>>

notCtor == <<store, order, capacity, suffix, born, clock, last, nOps,
             known_tools, conversation_history, previewVars, fanVars,
             chatVars, workerVars, connectors, sessions, parseVars, pptVars>>

InitSingleton ==
    /\ store = EmptyStore
    /\ order = <<>>
    /\ capacity = LoopCap
    /\ suffix = 0
    /\ born = EmptyStore
    /\ clock = 0
    /\ last = NoOp
    /\ nOps = 0
    /\ IdleLoop
    /\ known_tools = {}
    /\ conversation_history = <<>>
    /\ IdlePreview
    /\ IdleFan
    /\ IdleChat
    /\ IdleWorkers
    /\ IdleSessions
    /\ IdleParse
    /\ IdlePpt
    /\ callers = [t \in Callers |-> Between(0, 0, {}, 0)]
    /\ lock = 0
    /\ objects = <<>>
    /\ env_key \in BOOLEAN

NextSingleton ==
    \/ \E t \in Callers : CallNew(t) /\ UNCHANGED notCtor /\ UNCHANGED loopVars
    \/ \E t \in Callers : GetInstance(t) /\ UNCHANGED notCtor /\ UNCHANGED loopVars
    \/ \E t \in Callers : FirstCheck(t) /\ UNCHANGED notCtor /\ UNCHANGED loopVars
    \/ \E t \in Callers : Acquire(t) /\ UNCHANGED notCtor /\ UNCHANGED loopVars
    \/ \E t \in Callers : SecondCheck(t) /\ UNCHANGED notCtor /\ UNCHANGED loopVars
    \/ \E t \in Callers : Allocate(t) /\ UNCHANGED notCtor /\ UNCHANGED loopVars
    \/ \E t \in Callers : CheckKey(t) /\ UNCHANGED notCtor /\ UNCHANGED loopVars
    \/ \E t \in Callers : SetClient(t) /\ UNCHANGED notCtor /\ UNCHANGED loopVars
    \/ \E t \in Callers : SetToolFields(t) /\ UNCHANGED notCtor /\ UNCHANGED loopVars
    \/ \E t \in Callers : Release(t) /\ UNCHANGED notCtor /\ UNCHANGED loopVars
    \/ \E t \in Callers : Return(t) /\ UNCHANGED notCtor /\ UNCHANGED loopVars
    \/ SetEnvKey /\ UNCHANGED notCtor /\ UNCHANGED loopVars

SpecSingleton == InitSingleton /\ [][NextSingleton]_vars

\* a call of thread t has returned an object
Received(t) == callers[t].got # 0

NoFailure == \A t \in Callers : callers[t].raised = 0

\* C29: under any interleaving of concurrent constructions at most one
\* instance is ever created, every caller receives that instance, and (as
\* long as no initialization has failed) no caller receives it before its
\* initialization has completed.
C29_OneInitializedInstance ==
    /\ Len(objects) <= 1
    /\ \A t \in Callers : Received(t) =>
          /\ callers[t].got = instance
          /\ NoFailure => callers[t].seen = AllAttrs

\* what the lock does give: one object, the same for every caller
OneInstance ==
    /\ Len(objects) <= 1
    /\ \A t \in Callers : Received(t) => callers[t].got = instance

\* with a key available and no call failing, a caller was handed the
\* instance while another thread was still initializing it
ReceivedEarly ==
    /\ NoFailure
    /\ \E t \in Callers :
          /\ Received(t)
          /\ callers[t].seen # AllAttrs
          /\ lock \notin {0, t}

\* C30: when the initialization of the singleton fails no instance is
\* retained: once the failed call is over the class holds no instance or a
\* fully initialized one, and a later construction or get_instance call never
\* returns an instance whose initialization did not complete.
C30_FailedInitNotRetained ==
    /\ (lock = 0 /\ ~NoFailure) =>
          (instance = 0 \/ objects[instance] = AllAttrs)
    /\ \A t \in Callers :
          (Received(t) /\ lock = 0) => objects[callers[t].got] = AllAttrs

\* after a failed initialization, with no thread inside __new__, a call has
\* returned the object the failed call left behind, which has no attribute
ReturnedUninitialized ==
    /\ ~NoFailure
    /\ lock = 0
    /\ \A t \in Callers : callers[t].pc = "idle"
    /\ \E t \in Callers : Received(t) /\ objects[callers[t].got] = {}

====
